---------------------------- MODULE Spec2Model ----------------------------
(***************************************************************************)
(* A model of csvsee's date/time engine (csvsee/dates.py) and of the log   *)
(* scanner built on it (csvsee/utils.py, grep_files).                      *)
(*                                                                         *)
(* Text is modelled by TLA+ strings; Ch(s, i) is the i-th character.       *)
(* A raised exception is modelled by a distinguished result value.         *)
(***************************************************************************)
EXTENDS Integers, Sequences, FiniteSets, TLC

(***************************************************************************)
(* Characters and the str methods the code uses                            *)
(***************************************************************************)
Ch(s, i) == SubSeq(s, i, i)

Digits == {"0", "1", "2", "3", "4", "5", "6", "7", "8", "9"}

Whitespace == {" ", "\t", "\n"}

UpperLetters == "ABCDEFGHIJKLMNOPQRSTUVWXYZ"

LowerLetters == "abcdefghijklmnopqrstuvwxyz"

\* upper-case letter -> lower-case letter
RECURSIVE LowerTable(_)
LowerTable(k) ==
    IF k = 0 THEN << >>
    ELSE LowerTable(k - 1) @@ (Ch(UpperLetters, k) :> Ch(LowerLetters, k))

LowerMap == LowerTable(Len(UpperLetters))

\* one character, lower-cased (re.IGNORECASE, str.lower)
LowerCh(c) == IF c \in DOMAIN LowerMap THEN LowerMap[c] ELSE c

RECURSIVE Lower(_)
Lower(s) == IF s = "" THEN "" ELSE LowerCh(Head(s)) \o Lower(Tail(s))

IsDigit(s, i) == i >= 1 /\ i <= Len(s) /\ Ch(s, i) \in Digits

\* the character at i is one of the characters of the string set
CharIn(s, i, set) == i >= 1 /\ i <= Len(s) /\ Ch(s, i) \in set

\* s has the (lower-case) word w at position i, ignoring case
HasWordAt(s, i, w) ==
    /\ i >= 1
    /\ i + Len(w) - 1 <= Len(s)
    /\ \A k \in 1..Len(w) : LowerCh(Ch(s, i + k - 1)) = Ch(w, k)

\* int() of a string of decimal digits
DigitVal(c) == CHOOSE d \in 0..9 : Ch("0123456789", d + 1) = c

RECURSIVE ToInt(_)
ToInt(s) == IF s = "" THEN 0 ELSE ToInt(SubSeq(s, 1, Len(s) - 1)) * 10 + DigitVal(Ch(s, Len(s)))

\* str.count(c) for a single character c
RECURSIVE Count(_, _)
Count(s, c) == IF s = "" THEN 0 ELSE (IF Head(s) = c THEN 1 ELSE 0) + Count(Tail(s), c)

\* str.lstrip(), str.rstrip(), str.strip() with no argument
RECURSIVE LStrip(_)
LStrip(s) == IF s # "" /\ Head(s) \in Whitespace THEN LStrip(Tail(s)) ELSE s

RECURSIVE RStrip(_)
RStrip(s) ==
    IF s # "" /\ Ch(s, Len(s)) \in Whitespace THEN RStrip(SubSeq(s, 1, Len(s) - 1)) ELSE s

Strip(s) == RStrip(LStrip(s))

\* length of the run of non-whitespace characters that starts s
RECURSIVE WordLen(_)
WordLen(s) == IF s = "" \/ Head(s) \in Whitespace THEN 0 ELSE 1 + WordLen(Tail(s))

\* str.split() with no argument: the whitespace-separated words, in order
RECURSIVE Split(_)
Split(s) ==
    LET t == LStrip(s)
        n == WordLen(t)
    IN  IF t = "" THEN << >>
        ELSE <<SubSeq(t, 1, n)>> \o Split(SubSeq(t, n + 1, Len(t)))

\* ' '.join(words)
RECURSIVE Join(_)
Join(words) ==
    IF words = << >> THEN ""
    ELSE IF Len(words) = 1 THEN words[1]
    ELSE words[1] \o " " \o Join(Tail(words))

\* a list built by a comprehension, as the list of its elements
AsList(f) == SubSeq(f, 1, Len(f))

\* body(value), with the value computed once however often body uses it
Let(value, body(_)) == CHOOSE r \in {body(v) : v \in {value}} : TRUE

\* words[:n]
Take(words, n) == SubSeq(words, 1, IF n < Len(words) THEN n ELSE Len(words))

(***************************************************************************)
(* The inputs of the model                                                 *)
(***************************************************************************)
\* bounds of the model: the files of one call and the lines of one file
MaxFiles == 2

MaxLines == 2

\* the lines the model's files are made of
Lines == {"2010/08/30 14:05:37 Stun Stun",
          "2010/08/30 14:09:48",
          "8/30/2010 13:57 Pin",
          "Pin",
          "  "}

\* every sequence of at most n elements of S
RECURSIVE SeqsUpTo(_, _)
SeqsUpTo(S, n) ==
    IF n = 0 THEN {<< >>}
    ELSE SeqsUpTo(S, n - 1)
         \cup {Append(q, x) : q \in {r \in SeqsUpTo(S, n - 1) : Len(r) = n - 1}, x \in S}

Files == SeqsUpTo(Lines, MaxLines)

\* the arguments the model calls grep_files with
MatchLists == {<<"Stun", "Pin">>, <<"Pin", "Pin">>, <<"", "Pin">>}

DateFormatArgs == {"guess", "", "%Y/%m/%d %H:%M:%S", "%d %d"}

Resolutions == {60, 600}

\* the local time zone of the process, in seconds east of UTC
UtcOffsets == {0}

(***************************************************************************)
(* dates.py: the directive table and the supported formats                 *)
(***************************************************************************)
_months == <<"january", "february", "march", "april", "may", "june", "july",
             "august", "september", "october", "november", "december">>

\* '|'.join(names)
RECURSIVE JoinBar(_)
JoinBar(names) ==
    IF Len(names) = 1 THEN names[1] ELSE names[1] \o "|" \o JoinBar(Tail(names))

\* m[0:3] for each name
RECURSIVE FirstThree(_)
FirstThree(names) ==
    IF names = << >> THEN << >> ELSE <<SubSeq(Head(names), 1, 3)>> \o FirstThree(Tail(names))

\* formatting directives and the corresponding regular expression
_regexps ==
    ("B" :> ("(?P<b>" \o JoinBar(_months) \o ")"))
    @@ ("b" :> ("(?P<b>" \o JoinBar(FirstThree(_months)) \o ")"))
    @@ ("m" :> "(?P<m>\\d\\d?)")
    @@ ("d" :> "(?P<d>\\d\\d?)")
    @@ ("Y" :> "(?P<Y>\\d\\d\\d\\d)")
    @@ ("y" :> "(?P<y>\\d\\d)")
    @@ ("I" :> "(?P<H>0?[1-9]|1[012])")
    @@ ("H" :> "(?P<H>[01]?[0-9]|2[0-3])")
    @@ ("M" :> "(?P<M>[0-5]\\d)")
    @@ ("S" :> "(?P<S>[0-5]\\d)")
    @@ ("f" :> "(?P<f>\\d+)")
    @@ ("p" :> "(?P<p>am|pm)")

_date_formats == <<"B d, Y", "b d, Y", "B d Y", "b d Y", "B d", "b d",
                   "Y/m/d", "Y-m-d", "m/d/Y", "m-d-Y", "m/d/y", "m-d-y",
                   "y/m/d", "y-m-d">>

_time_formats == <<"I:M:S.f p", "H:M:S.f", "I:M:S p", "H:M:S", "I:M p", "H:M">>

\* the exception dates.CannotParse, as a result value
CannotParse == "CannotParse"

(***************************************************************************)
(* dates.format_regexp and dates.compiled_format_regexps                   *)
(***************************************************************************)
\* a format_regexp that leaves the other characters out of the regexp
RECURSIVE format_regexp_codes_only(_)
format_regexp_codes_only(simple_format) ==
    IF simple_format = "" THEN <<"", "">>
    ELSE LET char == Ch(simple_format, Len(simple_format))
             rest == format_regexp_codes_only(
                         SubSeq(simple_format, 1, Len(simple_format) - 1))
         IN  IF char \in DOMAIN _regexps
             THEN <<rest[1] \o "%" \o char, rest[2] \o _regexps[char]>>
             ELSE <<rest[1] \o char, rest[2]>>

\* (format, regexp) of a simplified format: one step per character
RECURSIVE format_regexp(_)
format_regexp(simple_format) ==
    IF simple_format = "" THEN <<"", "">>
    ELSE LET char == Ch(simple_format, Len(simple_format))
             rest == format_regexp(SubSeq(simple_format, 1, Len(simple_format) - 1))
         IN  IF char \in DOMAIN _regexps
             THEN <<rest[1] \o "%" \o char, rest[2] \o _regexps[char]>>
             ELSE <<rest[1] \o char, rest[2] \o char>>


\* the combinations with the two loops exchanged (time-major)
time_major_formats(date_formats, time_formats) ==
    LET nd == Len(date_formats)
        nt == Len(time_formats)
    IN  AsList([k \in 1..(nd * nt) |->
            date_formats[((k - 1) % nd) + 1] \o " " \o time_formats[((k - 1) \div nd) + 1]])
        \o date_formats \o time_formats

\* date_formats x time_formats (date-major), then the date formats, then
\* the time formats
date_time_formats(date_formats, time_formats) ==
    LET nd == Len(date_formats)
        nt == Len(time_formats)
    IN  AsList([k \in 1..(nd * nt) |->
            date_formats[((k - 1) \div nt) + 1] \o " " \o time_formats[((k - 1) % nt) + 1]])
        \o date_formats \o time_formats

(***************************************************************************)
(* re.compile(regexp, re.IGNORECASE) for the patterns format_regexp builds *)
(* (a concatenation of directive groups and single characters), and        *)
(* regexp.search(string)                                                   *)
(***************************************************************************)
HasPrefix(s, p) == Len(p) <= Len(s) /\ SubSeq(s, 1, Len(p)) = p

\* the pattern as a sequence of elements: a directive's group, "." (any
\* character) or a literal character
RECURSIVE re_compile(_)
re_compile(regexp) ==
    IF regexp = "" THEN << >>
    ELSE IF \E code \in DOMAIN _regexps : HasPrefix(regexp, _regexps[code])
    THEN LET code == CHOOSE c \in DOMAIN _regexps : HasPrefix(regexp, _regexps[c])
         IN  <<[kind |-> "group", v |-> code]>>
             \o re_compile(SubSeq(regexp, Len(_regexps[code]) + 1, Len(regexp)))
    ELSE <<[kind |-> IF Head(regexp) = "." THEN "any" ELSE "char", v |-> Head(regexp)]>>
         \o re_compile(Tail(regexp))

\* the lengths of the texts at position i of s that a directive's regular
\* expression matches, ignoring case
GroupLens(code, s, i) ==
    CASE code = "B" ->
            {Len(_months[k]) : k \in {j \in 1..Len(_months) : HasWordAt(s, i, _months[j])}}
      [] code = "b" ->
            {3 : k \in {j \in 1..Len(_months) : HasWordAt(s, i, SubSeq(_months[j], 1, 3))}}
      [] code \in {"m", "d"} ->
            {n \in 1..2 : \A k \in 0..(n - 1) : IsDigit(s, i + k)}
      [] code = "Y" ->
            {n \in {4} : \A k \in 0..(n - 1) : IsDigit(s, i + k)}
      [] code = "y" ->
            {n \in {2} : \A k \in 0..(n - 1) : IsDigit(s, i + k)}
      [] code = "I" ->
            {n \in {1} : CharIn(s, i, Digits \ {"0"})}
            \cup {n \in {2} : CharIn(s, i, {"0"}) /\ CharIn(s, i + 1, Digits \ {"0"})}
            \cup {n \in {2} : CharIn(s, i, {"1"}) /\ CharIn(s, i + 1, {"0", "1", "2"})}
      [] code = "H" ->
            {n \in {1} : IsDigit(s, i)}
            \cup {n \in {2} : CharIn(s, i, {"0", "1"}) /\ IsDigit(s, i + 1)}
            \cup {n \in {2} : CharIn(s, i, {"2"}) /\ CharIn(s, i + 1, {"0", "1", "2", "3"})}
      [] code \in {"M", "S"} ->
            {n \in {2} : CharIn(s, i, {"0", "1", "2", "3", "4", "5"}) /\ IsDigit(s, i + 1)}
      [] code = "f" ->
            {n \in 1..(Len(s) - i + 1) : \A k \in 0..(n - 1) : IsDigit(s, i + k)}
      [] code = "p" ->
            {n \in {2} : HasWordAt(s, i, "am") \/ HasWordAt(s, i, "pm")}

\* the lengths one pattern element can match at position i of s
ElemLens(elem, s, i) ==
    CASE elem.kind = "group" -> GroupLens(elem.v, s, i)
      [] elem.kind = "any" -> {n \in {1} : i <= Len(s) /\ Ch(s, i) # "\n"}
      [] elem.kind = "char" -> {n \in {1} : i <= Len(s) /\ LowerCh(Ch(s, i)) = LowerCh(elem.v)}

\* elements k.. of the pattern match s from position i on
RECURSIVE MatchesAt(_, _, _, _)
MatchesAt(pattern, k, s, i) ==
    IF k > Len(pattern) THEN TRUE
    ELSE \E n \in ElemLens(pattern[k], s, i) : MatchesAt(pattern, k + 1, s, i + n)

\* regexp.match(string) in place of search: only at the start of the string
re_match(pattern, string) == MatchesAt(pattern, 1, string, 1)

\* regexp.search(string): a match that may begin anywhere in the string
re_search(pattern, string) ==
    \E i \in 1..(Len(string) + 1) : MatchesAt(pattern, 1, string, i)

\* the list of (format, compiled_regexp), in the order of the combinations
compiled_format_regexps(date_formats, time_formats) ==
    LET dtf == date_time_formats(date_formats, time_formats)
    IN  AsList([k \in 1..Len(dtf) |->
            <<format_regexp(dtf[k])[1], re_compile(format_regexp(dtf[k])[2])>>])

\* the list guess_format builds on every call (always from the same inputs)
format_regexps == compiled_format_regexps(_date_formats, _time_formats)

(***************************************************************************)
(* dates.guess_format and dates.guess_file_date_format                     *)
(***************************************************************************)
\* the loop of guess_format from entry k on: the first format whose
\* regexp is found in the string
RECURSIVE guess_from(_, _)
guess_from(string, k) ==
    IF k > Len(format_regexps) THEN CannotParse
    ELSE IF re_search(format_regexps[k][2], string) THEN format_regexps[k][1]
    ELSE guess_from(string, k + 1)

guess_format(string) == guess_from(string, 1)

\* guess_format of the lines of the model's files, computed once
guessed_formats == [line \in Lines |-> guess_format(line)] @@ << >>

guess_format_once(string) ==
    IF string \in DOMAIN guessed_formats THEN guessed_formats[string]
    ELSE guess_format(string)

\* a guess_file_date_format that gives up when the first line has no date
guess_first_line(file) ==
    IF file = << >> THEN CannotParse ELSE guess_format_once(Head(file))

\* the first line of the file (a sequence of lines) whose format can be
\* guessed decides; CannotParse when there is none
RECURSIVE guess_file_date_format(_)
guess_file_date_format(file) ==
    IF file = << >> THEN CannotParse
    ELSE IF guess_format_once(Head(file)) # CannotParse THEN guess_format_once(Head(file))
    ELSE guess_file_date_format(Tail(file))

(***************************************************************************)
(* datetime.strptime(string, format), which dates.parse calls.  The format *)
(* becomes a regular expression (a directive -> the library's group, a run *)
(* of whitespace -> \s+, any other character -> itself), compiled with     *)
(* IGNORECASE and matched at the start of the string; the first match in   *)
(* the regular expression's backtracking order is the one that counts.     *)
(***************************************************************************)
\* the elements of a format
RECURSIVE strp_elems(_)
strp_elems(format) ==
    IF format = "" THEN << >>
    ELSE IF Head(format) = "%" THEN
        IF Len(format) = 1 THEN <<[kind |-> "stray", v |-> "%"]>>
        ELSE LET code == Ch(format, 2)
                 rest == strp_elems(SubSeq(format, 3, Len(format)))
             IN  IF code = "%" THEN <<[kind |-> "char", v |-> "%"]>> \o rest
                 ELSE IF code \in DOMAIN _regexps THEN <<[kind |-> "group", v |-> code]>> \o rest
                 ELSE <<[kind |-> "bad", v |-> code]>> \o rest
    ELSE IF Head(format) \in Whitespace THEN
        <<[kind |-> "space", v |-> " "]>> \o strp_elems(LStrip(format))
    ELSE <<[kind |-> "char", v |-> Head(format)]>> \o strp_elems(Tail(format))

\* two groups of the format define the same name: re.compile fails
strp_redefines(elems) ==
    \E j, k \in 1..Len(elems) :
        /\ j < k
        /\ elems[j].kind = "group"
        /\ elems[k].kind = "group"
        /\ elems[j].v = elems[k].v

\* the lengths the alternatives of a directive match at position i of s,
\* in the order the regular expression tries them
strp_lens(elem, s, i) ==
    LET one(cond, n) == IF cond THEN <<n>> ELSE << >>
        run == CHOOSE n \in 0..Len(s) :
                   /\ \A k \in 0..(n - 1) : IsDigit(s, i + k)
                   /\ ~IsDigit(s, i + n)
        spaces == CHOOSE n \in 0..Len(s) :
                   /\ \A k \in 0..(n - 1) : CharIn(s, i + k, Whitespace)
                   /\ ~CharIn(s, i + n, Whitespace)
        down(n) == [k \in 1..n |-> n + 1 - k]
        code == elem.v
    IN  CASE elem.kind = "space" -> down(spaces)
          [] elem.kind = "char" -> one(i <= Len(s) /\ LowerCh(Ch(s, i)) = LowerCh(code), 1)
          [] elem.kind = "group" /\ code = "d" ->
                one(CharIn(s, i, {"3"}) /\ CharIn(s, i + 1, {"0", "1"}), 2)
                \o one(CharIn(s, i, {"1", "2"}) /\ IsDigit(s, i + 1), 2)
                \o one(CharIn(s, i, {"0"}) /\ CharIn(s, i + 1, Digits \ {"0"}), 2)
                \o one(CharIn(s, i, Digits \ {"0"}), 1)
                \o one(CharIn(s, i, {" "}) /\ CharIn(s, i + 1, Digits \ {"0"}), 2)
          [] elem.kind = "group" /\ code \in {"m", "I"} ->
                one(CharIn(s, i, {"1"}) /\ CharIn(s, i + 1, {"0", "1", "2"}), 2)
                \o one(CharIn(s, i, {"0"}) /\ CharIn(s, i + 1, Digits \ {"0"}), 2)
                \o one(CharIn(s, i, Digits \ {"0"}), 1)
          [] elem.kind = "group" /\ code = "H" ->
                one(CharIn(s, i, {"2"}) /\ CharIn(s, i + 1, {"0", "1", "2", "3"}), 2)
                \o one(CharIn(s, i, {"0", "1"}) /\ IsDigit(s, i + 1), 2)
                \o one(IsDigit(s, i), 1)
          [] elem.kind = "group" /\ code = "M" ->
                one(CharIn(s, i, {"0", "1", "2", "3", "4", "5"}) /\ IsDigit(s, i + 1), 2)
                \o one(IsDigit(s, i), 1)
          [] elem.kind = "group" /\ code = "S" ->
                one(CharIn(s, i, {"6"}) /\ CharIn(s, i + 1, {"0", "1"}), 2)
                \o one(CharIn(s, i, {"0", "1", "2", "3", "4", "5"}) /\ IsDigit(s, i + 1), 2)
                \o one(IsDigit(s, i), 1)
          [] elem.kind = "group" /\ code = "y" -> one(run >= 2, 2)
          [] elem.kind = "group" /\ code = "Y" -> one(run >= 4, 4)
          [] elem.kind = "group" /\ code = "f" -> down(IF run > 6 THEN 6 ELSE run)
          [] elem.kind = "group" /\ code = "B" ->
                one(\E k \in 1..Len(_months) : HasWordAt(s, i, _months[k]),
                    Len(_months[CHOOSE k \in 1..Len(_months) : HasWordAt(s, i, _months[k])]))
          [] elem.kind = "group" /\ code = "b" ->
                one(\E k \in 1..Len(_months) : HasWordAt(s, i, SubSeq(_months[k], 1, 3)), 3)
          [] elem.kind = "group" /\ code = "p" ->
                one(HasWordAt(s, i, "am") \/ HasWordAt(s, i, "pm"), 2)

\* the result of a failed match
NoMatch == <<0>>

\* the first match of elements k.. from position i on, as the list of the
\* positions where each element's text ends (exclusive), or NoMatch
RECURSIVE strp_match(_, _, _, _)
RECURSIVE strp_try(_, _, _, _, _, _)
strp_match(elems, k, s, i) ==
    IF k > Len(elems) THEN << >>
    ELSE strp_try(elems, k, s, i, strp_lens(elems[k], s, i), 1)

strp_try(elems, k, s, i, lens, j) ==
    IF j > Len(lens) THEN NoMatch
    ELSE LET rest == strp_match(elems, k + 1, s, i + lens[j])
         IN  IF rest # NoMatch THEN <<i + lens[j]>> \o rest
             ELSE strp_try(elems, k, s, i, lens, j + 1)

(***************************************************************************)
(* datetime values: <<year, month, day, hour, minute, second, microsecond>>*)
(***************************************************************************)
datetime(year, month, day) == <<year, month, day, 0, 0, 0, 0>>

is_leap(year) == (year % 4 = 0) /\ ((year % 100 # 0) \/ (year % 400 = 0))

days_in_month(year, month) ==
    IF month = 2 THEN (IF is_leap(year) THEN 29 ELSE 28)
    ELSE IF month \in {4, 6, 9, 11} THEN 30 ELSE 31

\* days of the months before `month` in `year`
RECURSIVE days_before_month(_, _)
days_before_month(year, month) ==
    IF month = 1 THEN 0
    ELSE days_before_month(year, month - 1) + days_in_month(year, month - 1)

\* days from 0001-01-01 to the first day of `year`
days_before_year(year) ==
    LET y == year - 1 IN y * 365 + (y \div 4) - (y \div 100) + (y \div 400)

\* days from 1970-01-01 to the date
days_from_epoch(year, month, day) ==
    days_before_year(year) + days_before_month(year, month) + (day - 1)
    - days_before_year(1970)

\* A count of seconds is kept as <<days, seconds of the day>>, that is
\* days * 86400 + seconds with 0 <= seconds < 86400, so that the dates of
\* the year 1900 (strptime's default year) stay within TLC's integers.
secs_norm(days, secs) == Let(secs, LAMBDA s : <<days + (s \div 86400), s % 86400>>)

\* seconds from 1970-01-01 00:00:00 to the datetime, on the same clock
naive_seconds(t) ==
    secs_norm(days_from_epoch(t[1], t[2], t[3]), t[4] * 3600 + t[5] * 60 + t[6])

\* the year that holds the day `days` days after 1970-01-01
year_of_day(days) ==
    LET guess == 1970 + ((days * 400) \div 146097)
    IN  CHOOSE y \in (guess - 1)..(guess + 1) :
            /\ days_before_year(y) - days_before_year(1970) <= days
            /\ days < days_before_year(y + 1) - days_before_year(1970)

\* the month of `year` that holds the day numbered yday (from 0) of the year
month_of_day(year, yday) ==
    CHOOSE m \in 1..12 :
        /\ days_before_month(year, m) <= yday
        /\ yday < days_before_month(year, m) + days_in_month(year, m)

\* the datetime that many seconds after 1970-01-01 00:00:00, on the same
\* clock
from_naive_seconds(secs) ==
    Let(secs, LAMBDA s :
    Let(year_of_day(s[1]), LAMBDA year :
    Let(s[1] - (days_before_year(year) - days_before_year(1970)), LAMBDA yday :
    Let(month_of_day(year, yday), LAMBDA month :
        <<year, month, yday - days_before_month(year, month) + 1,
          s[2] \div 3600, (s[2] % 3600) \div 60, s[2] % 60, 0>>))))

\* a < b for two tuples of integers of the same length (datetime order)
RECURSIVE tuple_less(_, _)
tuple_less(a, b) ==
    /\ a # << >>
    /\ \/ Head(a) < Head(b)
       \/ Head(a) = Head(b) /\ tuple_less(Tail(a), Tail(b))

dt_less(a, b) == tuple_less(a, b)

\* time.mktime(t.timetuple()) and datetime.fromtimestamp(secs) in a local
\* time zone that is utcoffset seconds east of UTC
mktime(t, utcoffset) ==
    Let(naive_seconds(t), LAMBDA n : secs_norm(n[1], n[2] - utcoffset))

fromtimestamp(secs, utcoffset) ==
    Let(secs, LAMBDA s : from_naive_seconds(secs_norm(s[1], s[2] + utcoffset)))

\* integer division that rounds towards zero, as in C
truncate_to(epoch_seconds, resolution) ==
    Let(epoch_seconds, LAMBDA e :
    Let(IF resolution < 0 THEN -resolution ELSE resolution, LAMBDA size :
    Let((((e[1] % size) * (86400 % size)) + e[2]) % size, LAMBDA remainder :
        secs_norm(e[1], e[2] - remainder
                        + (IF e[1] < 0 /\ remainder # 0 THEN size ELSE 0)))))

\* (epoch_seconds / resolution) * resolution with Python 2's integer
\* division, which rounds the quotient down: for a positive resolution
\* epoch_seconds less its remainder, for a negative one the next multiple
\* of the resolution at or above epoch_seconds; the resolution is not 0
floor_to(epoch_seconds, resolution) ==
    Let(epoch_seconds, LAMBDA e :
    Let(IF resolution < 0 THEN -resolution ELSE resolution, LAMBDA size :
    Let((((e[1] % size) * (86400 % size)) + e[2]) % size, LAMBDA remainder :
        secs_norm(e[1], e[2] - remainder
                        + (IF resolution < 0 /\ remainder # 0 THEN size ELSE 0)))))

\* what a call returns or raises
Returned(v) == [raised |-> "", value |-> v]

Raised(e) == [raised |-> e, value |-> << >>]

\* the text of element k of a match
strp_text(s, ends, k) == SubSeq(s, IF k = 1 THEN 1 ELSE ends[k - 1], ends[k] - 1)

\* datetime.strptime(string, format)
strptime(string, format) ==
    LET elems == strp_elems(format)
        ends == strp_match(elems, 1, string, 1)
        has(code) == \E k \in 1..Len(elems) : elems[k].kind = "group" /\ elems[k].v = code
        text(code) ==
            strp_text(string, ends,
                      CHOOSE k \in 1..Len(elems) : elems[k].kind = "group" /\ elems[k].v = code)
        month_of(name, names) == CHOOSE k \in 1..Len(names) : names[k] = Lower(name)
        year == IF has("Y") THEN ToInt(text("Y"))
                ELSE IF has("y")
                THEN (IF ToInt(text("y")) <= 68 THEN 2000 ELSE 1900) + ToInt(text("y"))
                ELSE 1900
        month == IF has("m") THEN ToInt(text("m"))
                 ELSE IF has("B") THEN month_of(text("B"), _months)
                 ELSE IF has("b") THEN month_of(text("b"), FirstThree(_months))
                 ELSE 1
        day == IF has("d") THEN ToInt(LStrip(text("d"))) ELSE 1
        ampm == IF has("p") THEN Lower(text("p")) ELSE ""
        hour == IF has("H") THEN ToInt(text("H"))
                ELSE IF has("I")
                THEN LET h == ToInt(text("I"))
                     IN  IF ampm \in {"", "am"} THEN (IF h = 12 THEN 0 ELSE h)
                         ELSE (IF h # 12 THEN h + 12 ELSE h)
                ELSE 0
        minute == IF has("M") THEN ToInt(text("M")) ELSE 0
        second == IF has("S") THEN ToInt(text("S")) ELSE 0
        RECURSIVE pow10(_)
        pow10(n) == IF n = 0 THEN 1 ELSE 10 * pow10(n - 1)
        fraction == IF has("f") THEN ToInt(text("f")) * pow10(6 - Len(text("f"))) ELSE 0
    IN  IF \E k \in 1..Len(elems) : elems[k].kind \in {"stray", "bad"}
        THEN Raised("ValueError")
        ELSE IF strp_redefines(elems) THEN Raised("re.error")
        ELSE IF ends = NoMatch THEN Raised("ValueError")
        ELSE IF (IF ends = << >> THEN 1 ELSE ends[Len(ends)]) # Len(string) + 1
        THEN Raised("ValueError")
        ELSE IF year < 1 \/ day < 1 \/ day > days_in_month(year, month) \/ second > 59
        THEN Raised("ValueError")
        ELSE Returned(<<year, month, day, hour, minute, second, fraction>>)

(***************************************************************************)
(* datetime.strftime(t, format), for the directives of dates.py            *)
(***************************************************************************)
\* the number n >= 0 in decimal, zero-padded to the width
RECURSIVE Pad(_, _)
Pad(n, width) ==
    IF width <= 1 /\ n < 10 THEN Ch("0123456789", n + 1)
    ELSE Pad(n \div 10, width - 1) \o Ch("0123456789", (n % 10) + 1)

\* the name with its first letter in upper case
Capitalize(name) ==
    Ch(UpperLetters, CHOOSE k \in 1..Len(LowerLetters) : Ch(LowerLetters, k) = Head(name))
    \o Tail(name)

\* the text of one directive
strf_field(t, code) ==
    CASE code = "Y" -> Pad(t[1], 4)
      [] code = "y" -> Pad(t[1] % 100, 2)
      [] code = "m" -> Pad(t[2], 2)
      [] code = "B" -> Capitalize(_months[t[2]])
      [] code = "b" -> Capitalize(SubSeq(_months[t[2]], 1, 3))
      [] code = "d" -> Pad(t[3], 2)
      [] code = "H" -> Pad(t[4], 2)
      [] code = "I" -> Pad(IF t[4] % 12 = 0 THEN 12 ELSE t[4] % 12, 2)
      [] code = "p" -> IF t[4] < 12 THEN "AM" ELSE "PM"
      [] code = "M" -> Pad(t[5], 2)
      [] code = "S" -> Pad(t[6], 2)
      [] code = "f" -> Pad(t[7], 6)
      [] code = "%" -> "%"

RECURSIVE strftime(_, _)
strftime(t, format) ==
    IF format = "" THEN ""
    ELSE IF Head(format) = "%" /\ Len(format) >= 2
    THEN strf_field(t, Ch(format, 2)) \o strftime(t, SubSeq(format, 3, Len(format)))
    ELSE Head(format) \o strftime(t, Tail(format))

(***************************************************************************)
(* dates.parse and dates.date_chop                                         *)
(***************************************************************************)
\* keep the first N+1 words, N the number of spaces in the format, then
\* strptime; its ValueError becomes CannotParse
parse(string, format) ==
    LET spaces == Count(format, " ") + 1
        str == Join(Take(Split(string), spaces))
        parsed == strptime(str, format)
    IN  IF parsed.raised = "ValueError" THEN Raised(CannotParse) ELSE parsed

\* parse of the lines of the model's files in the formats the model uses,
\* computed once
parsed_lines ==
    [sf \in {Strip(line) : line \in Lines}
            \X ({guessed_formats[line] : line \in Lines} \cup DateFormatArgs) |->
        parse(sf[1], sf[2])] @@ << >>

parse_once(string, format) ==
    IF <<string, format>> \in DOMAIN parsed_lines THEN parsed_lines[<<string, format>>]
    ELSE parse(string, format)

\* the datetime of the line, rounded down to the resolution
date_chop(line, dateformat, resolution, utcoffset) ==
    Let(parse_once(line, dateformat), LAMBDA parsed :
        IF parsed.raised # "" THEN parsed
        ELSE IF resolution = 0 THEN Raised("ZeroDivisionError")
        ELSE LET epoch_seconds == mktime(parsed.value, utcoffset)
                 rounded_seconds == floor_to(epoch_seconds, resolution)
             IN  Returned(fromtimestamp(rounded_seconds, utcoffset)))

(***************************************************************************)
(* utils.grep_files(filenames, matches, dateformat, resolution)            *)
(***************************************************************************)
VARIABLES
    matches,        \* the argument matches: a list of expressions
    dateformat_arg, \* the argument dateformat
    resolution,     \* the argument resolution
    utcoffset,      \* the time zone of the process
    pc,             \* "files": at the head of the loop over filenames;
                    \* "lines": in the loop over the lines of a file;
                    \* "done": returned; "raised": left by an exception;
                    \* "none": grep_files is not running
    nfiles,         \* how many files have been opened
    content,        \* the lines of the file being read
    line_num,       \* how many of them have been read
    dateformat,     \* the local variable dateformat
    timestamp,      \* the local variable timestamp
    rows,           \* the dict rows: bucket -> (expression -> count)
    result,         \* the list returned
    attributed,     \* history: bucket -> the non-empty lines counted in it,
                    \* each as <<number of its file, line>>, in order
    called,         \* a function of dates.py or a method of grinder.py
                    \* called on its own, with its arguments
    outcomes,       \* what that call, and its repetitions, returned or raised
    subject,        \* the object of grinder.py at hand: "Bin", "Test", or ""
                    \* before it is constructed
    bin,            \* the Bin: its stats and its count
    test,           \* the Test: its resolution and its bins
    adds,           \* history: the add calls made on the object, each as
                    \* <<row, TRUE when the call returned>>
    report,         \* the Report: its resolution and its tests
    rpc,            \* "none": no Report; "reading": in the loop of
                    \* populate_stats over the rows of the data files;
                    \* "constructed": Report() returned; "writing": in the
                    \* loop of write_csv; "written": write_csv returned;
                    \* else the exception that Report() or write_csv raised
    data,           \* history: the rows of the data files read so far
    writer,         \* the local variables of write_csv
    csv_rows        \* the rows write_csv has written

grep_vars == <<matches, dateformat_arg, resolution, utcoffset, pc, nfiles, content,
               line_num, dateformat, timestamp, rows, result, attributed>>

dates_vars == <<called, outcomes>>

grinder_vars == <<subject, bin, test, adds>>

report_vars == <<report, rpc, data, writer, csv_rows>>

vars == <<grep_vars, dates_vars, grinder_vars, report_vars>>

\* no object of grinder.py is constructed
NoObject ==
    /\ subject = ""
    /\ bin = [stats |-> << >>, count |-> 0]
    /\ test = [resolution |-> 1, bins |-> << >>]
    /\ adds = << >>

\* no Report is constructed
NoReport ==
    /\ report = [resolution |-> 1, names |-> << >>, tests |-> << >>]
    /\ rpc = "none"
    /\ data = << >>
    /\ writer = [stat |-> "", test_numbers |-> << >>, start_time |-> 0,
                 end_time |-> 0, this_time |-> 0]
    /\ csv_rows = << >>

\* no function of dates.py is being called on its own
NoCall == [fn |-> "", args |-> << >>, date |-> ""]

\* the values of a list
Range(list) == {list[k] : k \in 1..Len(list)}

\* re.compile(expr).search(line), for an expression that is literal text
search(expr, line) ==
    \E i \in 1..(Len(line) - Len(expr) + 1) : SubSeq(line, i, i + Len(expr) - 1) = expr

\* dict(row_temp): every expression with count 0
row_temp == [expr \in Range(matches) |-> 0]

\* the loop over compiled_matches: one increment for every entry of the
\* list that is found in the line
count_matches(counts, line) ==
    [expr \in DOMAIN counts |->
        counts[expr] + Cardinality({k \in 1..Len(matches) :
                                       matches[k] = expr /\ search(matches[k], line)})]

\* a loop that has lost its "if not line: continue"
never_skipped(line) == FALSE

\* if not line: continue
is_skipped(line) == line = ""

\* an except clause that falls back to the 1970 timestamp instead of
\* keeping the current one
switch_or_reset(line_timestamp, current) ==
    IF line_timestamp.raised = CannotParse THEN datetime(1970, 1, 1)
    ELSE line_timestamp.value

\* try: line_timestamp = date_chop(...) / except CannotParse: pass /
\* else: timestamp = line_timestamp
switch_timestamp(line_timestamp, current) ==
    IF line_timestamp.raised = CannotParse THEN current ELSE line_timestamp.value

\* rows.items() returned without sorting: here, latest bucket first
RECURSIVE unsorted_items(_)
unsorted_items(d) ==
    IF DOMAIN d = {} THEN << >>
    ELSE Let(CHOOSE b \in DOMAIN d : \A c \in DOMAIN d : ~dt_less(b, c), LAMBDA last :
         Let([b \in DOMAIN d \ {last} |-> d[b]], LAMBDA rest :
             <<<<last, d[last]>>>> \o unsorted_items(rest)))

\* sorted(rows.iteritems()): the (bucket, counts) pairs by ascending bucket
RECURSIVE sorted_items(_)
sorted_items(d) ==
    IF DOMAIN d = {} THEN << >>
    ELSE Let(CHOOSE b \in DOMAIN d : \A c \in DOMAIN d : ~dt_less(c, b), LAMBDA least :
         Let([b \in DOMAIN d \ {least} |-> d[b]], LAMBDA rest :
             <<<<least, d[least]>>>> \o sorted_items(rest)))

\* the value of timestamp before the first line of a file
epoch_zero == datetime(1970, 1, 1)

Init ==
    /\ matches \in MatchLists
    /\ dateformat_arg \in DateFormatArgs
    /\ resolution \in Resolutions
    /\ utcoffset \in UtcOffsets
    /\ pc = "files"
    /\ nfiles = 0
    /\ content = << >>
    /\ line_num = 0
    /\ dateformat = dateformat_arg
    /\ timestamp = epoch_zero
    /\ rows = << >>
    /\ result = << >>
    /\ attributed = << >>
    /\ called = NoCall
    /\ outcomes = << >>
    /\ NoObject
    /\ NoReport

\* the next filename of the list: guess the date format if it is still to
\* be guessed, reset timestamp, and start on the lines of the file
OpenFile(file) ==
    /\ pc = "files"
    /\ nfiles < MaxFiles
    /\ nfiles' = nfiles + 1
    /\ \E guessing \in {dateformat = "" \/ dateformat = "guess"} :
       \E guessed \in {guess_file_date_format(file)} :
           IF guessing /\ guessed = CannotParse
           THEN /\ pc' = "raised"
                /\ UNCHANGED <<content, line_num, dateformat, timestamp>>
           ELSE /\ pc' = "lines"
                /\ dateformat' = IF guessing THEN guessed ELSE dateformat
                /\ timestamp' = epoch_zero
                /\ content' = file
                /\ line_num' = 0
    /\ UNCHANGED <<matches, dateformat_arg, resolution, utcoffset, rows, result,
                   attributed, dates_vars, grinder_vars, report_vars>>

\* one pass of the loop over the lines of the file
ReadLine ==
    /\ pc = "lines"
    /\ line_num < Len(content)
    /\ line_num' = line_num + 1
    /\ \E line \in {Strip(content[line_num + 1])} :
       \E line_timestamp \in {date_chop(line, dateformat, resolution, utcoffset)} :
       \E new_timestamp \in {switch_timestamp(line_timestamp, timestamp)} :
       \E old_counts \in {IF new_timestamp \in DOMAIN rows THEN rows[new_timestamp]
                          ELSE row_temp} :
           IF is_skipped(line)
           THEN UNCHANGED <<pc, timestamp, rows, attributed>>
           ELSE IF line_timestamp.raised \notin {"", CannotParse}
           THEN /\ pc' = "raised"
                /\ UNCHANGED <<timestamp, rows, attributed>>
           ELSE /\ pc' = pc
                /\ timestamp' = new_timestamp
                /\ rows' = [b \in DOMAIN rows \cup {new_timestamp} |->
                               IF b = new_timestamp THEN count_matches(old_counts, line)
                               ELSE rows[b]]
                /\ attributed' =
                       [b \in DOMAIN attributed \cup {new_timestamp} |->
                           IF b = new_timestamp
                           THEN Append(IF b \in DOMAIN attributed THEN attributed[b]
                                       ELSE << >>,
                                       <<nfiles, line>>)
                           ELSE attributed[b]]
    /\ UNCHANGED <<matches, dateformat_arg, resolution, utcoffset, nfiles, content,
                   dateformat, result, dates_vars, grinder_vars, report_vars>>

\* the lines of the file are exhausted: back to the loop over filenames
EndFile ==
    /\ pc = "lines"
    /\ line_num = Len(content)
    /\ pc' = "files"
    /\ content' = << >>
    /\ line_num' = 0
    /\ UNCHANGED <<matches, dateformat_arg, resolution, utcoffset, nfiles, dateformat,
                   timestamp, rows, result, attributed, dates_vars, grinder_vars, report_vars>>

\* the filenames are exhausted: return the sorted list
Return ==
    /\ pc = "files"
    /\ pc' = "done"
    /\ result' = sorted_items(rows)
    /\ UNCHANGED <<matches, dateformat_arg, resolution, utcoffset, nfiles, content,
                   line_num, dateformat, timestamp, rows, attributed, dates_vars, grinder_vars, report_vars>>

Next ==
    \/ \E file \in Files : OpenFile(file)
    \/ ReadLine
    \/ EndFile
    \/ Return

Spec == Init /\ [][Next]_vars

(***************************************************************************)
(* The functions of dates.py called on their own                           *)
(***************************************************************************)
\* how often a call is repeated with the same arguments
MaxRepeats == 1

\* the strings guess_format is called with
GuessStrings ==
    Lines \cup {"", "no date here", "at 2010/08/30 13:57:14 it rained",
                "Aug 30 2010 1:57 pm", "x8/30/2010 13:57x", "12:30", "30.08.2010",
                "August 30, 2010", "2010/08/30", "10:15:20.123 PM 8/30/10"}

\* the strings parse is called with: a date/time text and what follows it
DateTexts == {"2010/08/28", "2010/08/ 5", "2010/08/30 14:05:37", "8/30/2010 13:57",
              "2010/02/30", "Aug 30 2010", "1 1"}

Tails == {"", " extra stuff", "x", " 5", "  \n", ".5"}

\* the formats parse is called with
ParseFormats == {"%Y/%m/%d", "%Y/%m/%d %H:%M:%S", "%m/%d/%Y %H:%M", "%b %d %Y",
                 "%d %d", "%Q %d", "%Y/%m/%d%"}

\* what date_chop is called with: the line, the format, the resolution,
\* and the time zone it runs in (seconds east of UTC)
ChopLines == {"2010/08/30 14:05:37 Stun", "2010/08/30 10:45:20", "1970/01/01 00:00:00",
              "1969/12/31 23:59:30", "1969/07/20 20:17:40 x", "14:05:37", "Pin"}

ChopFormats == {"%Y/%m/%d %H:%M:%S", "%H:%M:%S"}

ChopResolutions == {60, 3600, 7, 0, -60}

ChopOffsets == {0, 19800, -18000}

\* the simplified formats format_regexp is called with
SimpleFormats ==
    Range(_date_formats) \cup Range(_time_formats)
    \cup {"", "Y/m/d H:M:S", "b d, Y I:M p", "at H.M", "%Y", "x", "d d", "Z z"}

\* the lists compiled_format_regexps is called with
DateFormatLists == {<< >>, <<"Y/m/d">>, <<"m/d/Y", "Y/m/d">>, <<"b d, Y", "Y-m-d", "m/d/y">>,
                    _date_formats}

TimeFormatLists == {<< >>, <<"H:M">>, <<"I:M p", "H:M:S">>, _time_formats}

\* the datetimes that are formatted and parsed back
Timestamps == {<<2010, 8, 30, 14, 5, 37, 123456>>, <<2012, 2, 29, 10, 30, 0, 0>>,
               <<1999, 12, 31, 23, 59, 59, 999999>>, <<2000, 1, 1, 0, 0, 0, 0>>,
               <<1950, 3, 4, 12, 0, 1, 5>>}

\* the lines that begin with a date/time, as a log file has them
DatedLines == {"2010/08/30 14:05:37 Stun Stun", "8/30/2010 13:57 Pin",
               "Aug 30 2010 1:57 pm", "August 30, 2010 rain", "12:30 lunch",
               "08/30/2010 14:05:37.5 x", "Feb 29 10:30:00 host sshd",
               "2010/08/30 14:05:37: Stun", "2010-08-28 14:05:37,123 INFO x",
               "2010/08/30T14:05:37 x"}

\* a template returned, or CannotParse raised, as an outcome
returned_or_raised(template) ==
    IF template = CannotParse THEN Raised(CannotParse) ELSE Returned(template)

DatesInit ==
    /\ matches = << >>
    /\ dateformat_arg = "guess"
    /\ resolution = 60
    /\ utcoffset = 0
    /\ pc = "none"
    /\ nfiles = 0
    /\ content = << >>
    /\ line_num = 0
    /\ dateformat = "guess"
    /\ timestamp = epoch_zero
    /\ rows = << >>
    /\ result = << >>
    /\ attributed = << >>
    /\ called = NoCall
    /\ outcomes = << >>
    /\ NoObject
    /\ NoReport

\* the call can be made: it is a first call, or the same call once more
may_call(c) ==
    \/ called = NoCall
    \/ /\ called.fn = c.fn
       /\ called.args = c.args
       /\ Len(outcomes) <= MaxRepeats

\* the call is made and its outcome noted
made(c, outcome) ==
    /\ may_call(c)
    /\ called' = c
    /\ outcomes' = Append(outcomes, outcome)

CallGuessFormat(string) ==
    /\ made([fn |-> "guess_format", args |-> <<string>>, date |-> ""],
            returned_or_raised(guess_format(string)))
    /\ UNCHANGED <<grep_vars, grinder_vars, report_vars>>

CallGuessFileDateFormat(file) ==
    /\ made([fn |-> "guess_file_date_format", args |-> <<file>>, date |-> ""],
            returned_or_raised(guess_file_date_format(file)))
    /\ UNCHANGED <<grep_vars, grinder_vars, report_vars>>

\* parse(date + garbage, format)
CallParse(date, garbage, format) ==
    /\ made([fn |-> "parse", args |-> <<date \o garbage, format>>, date |-> date],
            parse(date \o garbage, format))
    /\ UNCHANGED <<grep_vars, grinder_vars, report_vars>>

\* date_chop(line, dateformat, resolution) in the time zone utcoffset
CallDateChop(line, format, res, offset) ==
    /\ made([fn |-> "date_chop", args |-> <<line, format, res, offset>>, date |-> ""],
            date_chop(line, format, res, offset))
    /\ UNCHANGED <<grep_vars, grinder_vars, report_vars>>

CallFormatRegexp(simple_format) ==
    /\ made([fn |-> "format_regexp", args |-> <<simple_format>>, date |-> ""],
            Returned(format_regexp(simple_format)))
    /\ UNCHANGED <<grep_vars, grinder_vars, report_vars>>

CallCompiledFormatRegexps(date_formats, time_formats) ==
    /\ made([fn |-> "compiled_format_regexps", args |-> <<date_formats, time_formats>>,
             date |-> ""],
            Returned(compiled_format_regexps(date_formats, time_formats)))
    /\ UNCHANGED <<grep_vars, grinder_vars, report_vars>>

\* parse(t.strftime(template), template) for the template of a candidate
CallFormatThenParse(t, k) ==
    /\ may_call([fn |-> "strftime, parse", args |-> <<t, format_regexps[k][1]>>])
    /\ \E date \in {strftime(t, format_regexps[k][1])} :
           made([fn |-> "strftime, parse", args |-> <<t, format_regexps[k][1]>>,
                 date |-> date],
                parse(date, format_regexps[k][1]))
    /\ UNCHANGED <<grep_vars, grinder_vars, report_vars>>

\* parse(line, guess_format(line)): what date_chop does in grep_files with
\* the format guess_file_date_format found on that line
CallGuessThenParse(line) ==
    /\ may_call([fn |-> "guess_format, parse", args |-> <<line>>])
    /\ \E format \in {guess_format(line)} :
           made([fn |-> "guess_format, parse", args |-> <<line>>, date |-> format],
                IF format = CannotParse THEN Raised(CannotParse)
                ELSE parse(line, format))
    /\ UNCHANGED <<grep_vars, grinder_vars, report_vars>>

\* on to another call
CallOver ==
    /\ called # NoCall
    /\ called' = NoCall
    /\ outcomes' = << >>
    /\ UNCHANGED <<grep_vars, grinder_vars, report_vars>>

DatesNext ==
    \/ \E string \in GuessStrings : CallGuessFormat(string)
    \/ \E file \in Files : CallGuessFileDateFormat(file)
    \/ \E date \in DateTexts, garbage \in Tails, format \in ParseFormats :
           CallParse(date, garbage, format)
    \/ \E line \in ChopLines, format \in ChopFormats, res \in ChopResolutions,
          offset \in ChopOffsets :
           CallDateChop(line, format, res, offset)
    \/ \E simple_format \in SimpleFormats : CallFormatRegexp(simple_format)
    \/ \E date_formats \in DateFormatLists, time_formats \in TimeFormatLists :
           CallCompiledFormatRegexps(date_formats, time_formats)
    \/ \E t \in Timestamps, k \in 1..Len(format_regexps) : CallFormatThenParse(t, k)
    \/ \E line \in DatedLines : CallGuessThenParse(line)
    \/ CallOver

SpecDates == DatesInit /\ [][DatesNext]_vars

(***************************************************************************)
(* grinder.py: Bin and Test.  A row is a function from column names to the  *)
(* texts csv.DictReader read.  A method that changes its object gives      *)
(* [raised, value], with the object as the call left it in value.          *)
(***************************************************************************)
MaxRows == 3

sum_stats == <<"Errors", "HTTP response errors">>

average_stats == <<"HTTP response length", "Test time">>

all_stats == sum_stats \o average_stats

start_time == "Start time (ms since Epoch)"

Row(start, errors, response_errors, length, time) ==
    (start_time :> start) @@ ("Errors" :> errors)
        @@ ("HTTP response errors" :> response_errors)
        @@ ("HTTP response length" :> length) @@ ("Test time" :> time)

\* rows of a data file: two in the same second, one a minute later, one
\* before 1970 with a negative time, one whose response length is missing
GrinderRows ==
    { Row("15001", "1", "0", "1000", "20"),
      Row("15999", "0", "1", "7", "31"),
      Row("75000", "0", "0", "500", "45"),
      Row("-1500", "0", "0", "3", "-27"),
      Row("15500", "2", "0", "", "10") }

StatNameLists == {all_stats, <<"Errors", "Test time">>}

TestResolutions == {1, 60}

QueryStats == Range(all_stats) \cup {"Fake Stat"}

QueryTimes == {15, 75, 0, 60, 9999}

\* int(text) for a str: surrounding whitespace and one sign are allowed
py_int(text) ==
    LET stripped == Strip(text)
        signed == stripped # "" /\ Ch(stripped, 1) \in {"-", "+"}
        digits == IF signed THEN SubSeq(stripped, 2, Len(stripped)) ELSE stripped
    IN  IF digits = "" \/ \E k \in 1..Len(digits) : Ch(digits, k) \notin Digits
        THEN Raised("ValueError")
        ELSE IF signed /\ Ch(stripped, 1) = "-" THEN Returned(0 - ToInt(digits))
        ELSE Returned(ToInt(digits))

\* the statistics of b for which int(row[stat]) raises
rejected(b, row) == {stat \in DOMAIN b.stats : py_int(row[stat]).raised # ""}

\* where the loop of Bin.add can have got to when it ends: nowhere when every
\* int() returns (the whole row is accumulated), else any set of statistics
\* that int() accepts, as the order of a dict's keys is not the program's
partial_updates(b, row) ==
    IF rejected(b, row) = {} THEN {{}}
    ELSE SUBSET (DOMAIN b.stats \ rejected(b, row))

\* Bin(stat_names)
Bin(stat_names) == [stats |-> [stat \in Range(stat_names) |-> 0], count |-> 0]

\* a Bin.add that keeps only the row it was given
add_replacing(b, row, done) ==
    IF rejected(b, row) # {}
    THEN [raised |-> "ValueError", value |-> b]
    ELSE Returned([stats |-> [stat \in DOMAIN b.stats |-> py_int(row[stat]).value],
                   count |-> b.count + 1])

\* Bin.add(row).  The loop visits the statistics in the dict's order and the
\* first int() that raises ends it: the statistics in done, visited before
\* that one, are already accumulated, and the count is not.
Bin_add(b, row, done) ==
    IF rejected(b, row) # {}
    THEN [raised |-> "ValueError",
          value |-> [b EXCEPT !.stats =
                        [stat \in DOMAIN b.stats |->
                            IF stat \in done
                            THEN b.stats[stat] + py_int(row[stat]).value
                            ELSE b.stats[stat]]]]
    ELSE Returned([stats |-> [stat \in DOMAIN b.stats |->
                                 b.stats[stat] + py_int(row[stat]).value],
                   count |-> b.count + 1])

\* Bin.average(stat)
Bin_average(b, stat) ==
    IF b.count > 0
    THEN IF stat \in DOMAIN b.stats THEN Returned(b.stats[stat] \div b.count)
         ELSE Raised("KeyError")
    ELSE Returned(0)

\* Test(number, name, resolution)
Test(test_resolution) == [resolution |-> test_resolution, bins |-> << >>]

\* a key that is the second of the row, whatever the resolution
key_in_seconds(ms, test_resolution) == ms \div 1000

\* the key of the bin of a row in Test.add
bin_key(ms, test_resolution) ==
    IF test_resolution > 1
    THEN ((ms \div 1000) \div test_resolution) * test_resolution
    ELSE ms \div 1000

\* Test.add(row)
Test_add(t, row, done) ==
    IF py_int(row[start_time]).raised # ""
    THEN [raised |-> "ValueError", value |-> t]
    ELSE LET key == bin_key(py_int(row[start_time]).value, t.resolution)
             found == IF key \in DOMAIN t.bins THEN t.bins
                      ELSE (key :> Bin(all_stats)) @@ t.bins
             added == Bin_add(found[key], row, done)
         IN  [raised |-> added.raised,
              value |-> [t EXCEPT !.bins = [found EXCEPT ![key] = added.value]]]

\* Test.stat_at_time(stat, timestamp)
stat_at_time(t, stat, at) ==
    IF at \notin DOMAIN t.bins THEN Returned(0)
    ELSE IF stat \in Range(sum_stats) THEN Returned(t.bins[at].stats[stat])
    ELSE IF stat \in Range(average_stats)
         THEN IF t.bins[at].count = 0 THEN Raised("ZeroDivisionError")
              ELSE Returned(t.bins[at].stats[stat] \div t.bins[at].count)
    ELSE Raised("ValueError")

GrinderInit == DatesInit

NewBin(stat_names) ==
    /\ subject = ""
    /\ subject' = "Bin"
    /\ bin' = Bin(stat_names)
    /\ UNCHANGED <<grep_vars, dates_vars, report_vars, test, adds>>

BinAdd(row) ==
    /\ subject = "Bin"
    /\ Len(adds) < MaxRows
    /\ \E done \in partial_updates(bin, row) :
           \E added \in {Bin_add(bin, row, done)} :
               /\ bin' = added.value
               /\ adds' = Append(adds, <<row, added.raised = "">>)
    /\ called' = NoCall
    /\ outcomes' = << >>
    /\ UNCHANGED <<grep_vars, report_vars, subject, test>>

BinAverage(stat) ==
    /\ subject = "Bin"
    /\ called' = [fn |-> "average", args |-> <<stat>>, date |-> ""]
    /\ outcomes' = <<Bin_average(bin, stat)>>
    /\ UNCHANGED <<grep_vars, grinder_vars, report_vars>>

NewTest(test_resolution) ==
    /\ subject = ""
    /\ subject' = "Test"
    /\ test' = Test(test_resolution)
    /\ UNCHANGED <<grep_vars, dates_vars, report_vars, bin, adds>>

TestAdd(row) ==
    /\ subject = "Test"
    /\ Len(adds) < MaxRows
    /\ \E done \in partial_updates(Bin(all_stats), row) :
           \E added \in {Test_add(test, row, done)} :
               /\ test' = added.value
               /\ adds' = Append(adds, <<row, added.raised = "">>)
    /\ called' = NoCall
    /\ outcomes' = << >>
    /\ UNCHANGED <<grep_vars, report_vars, subject, bin>>

StatAtTime(stat, at) ==
    /\ subject = "Test"
    /\ called' = [fn |-> "stat_at_time", args |-> <<stat, at>>, date |-> ""]
    /\ outcomes' = <<stat_at_time(test, stat, at)>>
    /\ UNCHANGED <<grep_vars, grinder_vars, report_vars>>

GrinderNext ==
    \/ \E stat_names \in StatNameLists : NewBin(stat_names)
    \/ \E row \in GrinderRows : BinAdd(row)
    \/ \E stat \in QueryStats : BinAverage(stat)
    \/ \E test_resolution \in TestResolutions : NewTest(test_resolution)
    \/ \E row \in GrinderRows : TestAdd(row)
    \/ \E stat \in QueryStats, at \in QueryTimes : StatAtTime(stat, at)

SpecGrinder == GrinderInit /\ [][GrinderNext]_vars

(***************************************************************************)
(* grinder.py: get_test_names and Report.  An out file is the list of its  *)
(* lines; the data files are the rows csv.DictReader reads from them, one  *)
(* after the other.                                                        *)
(***************************************************************************)
MaxData == 3

MaxWritten == 8

\* str(n) for an int
RECURSIVE py_str(_)
py_str(n) ==
    IF n < 0 THEN "-" \o py_str(0 - n)
    ELSE IF n < 10 THEN Pad(n, 1)
    ELSE py_str(n \div 10) \o Pad(n % 10, 1)

\* sorted(keys)
RECURSIVE sorted_keys(_)
sorted_keys(keys) ==
    IF keys = {} THEN << >>
    ELSE LET least == CHOOSE k \in keys : \A other \in keys : k <= other
         IN  <<least>> \o sorted_keys(keys \ {least})

\* the keys from the largest down
RECURSIVE reversed_keys(_)
reversed_keys(keys) ==
    IF keys = {} THEN << >>
    ELSE LET most == CHOOSE k \in keys : \A other \in keys : k >= other
         IN  <<most>> \o reversed_keys(keys \ {most})

\* the order of the columns in write_csv
test_order(keys) == sorted_keys(keys)

\* the words of the line from character i on: white space separates them,
\* and double quotes hold a word together and are left out of it
RECURSIVE shlex_from(_, _, _, _, _)
shlex_from(line, i, token, in_token, quoted) ==
    IF i > Len(line) THEN (IF in_token THEN <<token>> ELSE << >>)
    ELSE IF quoted
         THEN IF Ch(line, i) = "\""
              THEN shlex_from(line, i + 1, token, TRUE, FALSE)
              ELSE shlex_from(line, i + 1, token \o Ch(line, i), TRUE, TRUE)
    ELSE IF Ch(line, i) = "\"" THEN shlex_from(line, i + 1, token, TRUE, TRUE)
    ELSE IF Ch(line, i) \in Whitespace
         THEN (IF in_token THEN <<token>> ELSE << >>)
                  \o shlex_from(line, i + 1, "", FALSE, FALSE)
    ELSE shlex_from(line, i + 1, token \o Ch(line, i), TRUE, FALSE)

\* shlex.split(line), for lines without quote characters other than ", and
\* without backslashes
shlex_split(line) ==
    IF Count(line, "\"") % 2 = 1 THEN Raised("ValueError")
    ELSE Returned(shlex_from(line, 1, "", FALSE, FALSE))

\* the dict of get_test_names after the first n lines of the out file
RECURSIVE test_names_from(_, _)
test_names_from(outfile, n) ==
    IF n = 0 THEN Returned(<< >>)
    ELSE Let(test_names_from(outfile, n - 1), LAMBDA tests :
         IF tests.raised # "" \/ ~HasPrefix(outfile[n], "Test ") THEN tests
         ELSE Let(shlex_split(outfile[n]), LAMBDA fields :
              IF fields.raised # "" THEN Raised(fields.raised)
              ELSE IF Len(fields.value) < 2 THEN Raised("IndexError")
              ELSE IF py_int(fields.value[2]).raised # "" THEN Raised("ValueError")
              ELSE Returned((py_int(fields.value[2]).value
                                :> fields.value[Len(fields.value)])
                            @@ tests.value)))

\* get_test_names(outfile)
get_test_names(outfile) == test_names_from(outfile, Len(outfile))

\* out files: one without a summary, one with one test, one with two tests
\* in descending order and a line of totals
OutFiles ==
    { <<"The Grinder 3", "Tests Errors">>,
      <<"Test 1 0 \"Login\"">>,
      <<"Test 2 0 \"Log out\"", "Test 1 0 \"Login\"", "Totals 0">> }

ReportResolutions == {1, 2, 0, -2}

\* a row of a data file
DataRow(test_num, start, errors, response_errors, length, time) ==
    ("Test" :> test_num) @@ Row(start, errors, response_errors, length, time)

\* rows of tests 1 and 2, one of a test that the out file does not name, one
\* before 1970, one whose response length is missing
DataRows ==
    { DataRow("1", "3000", "1", "0", "100", "20"),
      DataRow("1", "5999", "0", "0", "50", "31"),
      DataRow("2", "4000", "0", "1", "70", "8"),
      DataRow("7", "9000", "3", "0", "10", "5"),
      DataRow("2", "-1500", "0", "0", "30", "12"),
      DataRow("1", "4000", "0", "0", "", "9") }

WrittenStats == {"Errors", "Test time", "Fake Stat"}

\* a Test of resolution 1, whatever the report's
Test_of_seconds(test_resolution) == [resolution |-> 1, bins |-> << >>]

\* the Test that populate_stats creates for a test number
new_test(test_resolution) == Test(test_resolution)

\* a Report.add that gives the row of an unknown test to the first test
add_to_first(r, row, done) ==
    LET first == CHOOSE k \in DOMAIN r.tests : \A other \in DOMAIN r.tests : k <= other
        added == Test_add(r.tests[first], row, done)
    IN  [raised |-> added.raised,
         value |-> [r EXCEPT !.tests = [r.tests EXCEPT ![first] = added.value]]]

\* Report.add(row)
Report_add(r, row, done) ==
    IF py_int(row["Test"]).raised # ""
    THEN [raised |-> "ValueError", value |-> r]
    ELSE IF py_int(row["Test"]).value \notin DOMAIN r.tests THEN Returned(r)
    ELSE LET test_num == py_int(row["Test"]).value
             added == Test_add(r.tests[test_num], row, done)
         IN  [raised |-> added.raised,
              value |-> [r EXCEPT !.tests = [r.tests EXCEPT ![test_num] = added.value]]]

\* Test.timestamp_range()
Test_timestamp_range(t) ==
    IF DOMAIN t.bins = {} THEN <<0, 0>>
    ELSE << CHOOSE k \in DOMAIN t.bins : \A other \in DOMAIN t.bins : k <= other,
            CHOOSE k \in DOMAIN t.bins : \A other \in DOMAIN t.bins : k >= other >>

\* Report.timestamp_range(), for a report that has tests
Report_timestamp_range(r) ==
    LET ranges == {Test_timestamp_range(r.tests[n]) : n \in DOMAIN r.tests}
    IN  << CHOOSE start \in {range[1] : range \in ranges} :
               \A range \in ranges : start <= range[1],
           CHOOSE end \in {range[2] : range \in ranges} :
               \A range \in ranges : end >= range[2] >>

\* str(test)[:trunc_length] for each test number of the list
RECURSIVE header_names(_, _)
header_names(r, test_numbers) ==
    IF test_numbers = << >> THEN << >>
    ELSE LET name == py_str(Head(test_numbers)) \o ": " \o r.names[Head(test_numbers)]
             trunc_length == 65000 \div Cardinality(DOMAIN r.tests)
         IN  <<IF Len(name) <= trunc_length THEN name ELSE SubSeq(name, 1, trunc_length)>>
                 \o header_names(r, Tail(test_numbers))

\* the first cell of the row of a timestamp
timestamp_cell(this_time) ==
    strftime(fromtimestamp(secs_norm(0, this_time), 0), "%m/%d/%Y %H:%M:%S") \o ".000"

\* the calls of stat_at_time for a row, in the writer's order of tests
cells(r, w) ==
    [k \in 1..Len(w.test_numbers) |->
        stat_at_time(r.tests[w.test_numbers[k]], w.stat, w.this_time)]

ReportInit == DatesInit

\* Report(resolution, grinder_outfile, ...) as far as the loop over the
\* data files
NewReport(report_resolution, outfile) ==
    /\ rpc = "none"
    /\ subject = ""
    /\ called = NoCall
    /\ called' = [fn |-> "Report", args |-> <<report_resolution, outfile>>, date |-> ""]
    /\ \E names \in {get_test_names(outfile)} :
           IF names.raised # ""
           THEN rpc' = names.raised /\ UNCHANGED report
           ELSE IF DOMAIN names.value = {}
           THEN rpc' = "NoTestNames" /\ UNCHANGED report
           ELSE /\ rpc' = "reading"
                /\ report' = [resolution |-> report_resolution,
                              names |-> names.value,
                              tests |-> [n \in DOMAIN names.value |->
                                            new_test(report_resolution)]]
    /\ UNCHANGED <<grep_vars, outcomes, grinder_vars, data, writer, csv_rows>>

\* one pass of the loop of populate_stats: self.add(row)
ReadRow(row) ==
    /\ rpc = "reading"
    /\ Len(data) < MaxData
    /\ \E done \in partial_updates(Bin(all_stats), row) :
           \E added \in {Report_add(report, row, done)} :
               /\ report' = added.value
               /\ rpc' = IF added.raised = "" THEN "reading" ELSE added.raised
    /\ data' = Append(data, row)
    /\ UNCHANGED <<grep_vars, dates_vars, grinder_vars, writer, csv_rows>>

\* the data files are read: Report() returns
EndOfData ==
    /\ rpc = "reading"
    /\ rpc' = "constructed"
    /\ UNCHANGED <<grep_vars, dates_vars, grinder_vars, report, data, writer, csv_rows>>

\* write_csv(stat, filename) as far as its loop
WriteHeader(stat) ==
    /\ rpc = "constructed"
    /\ rpc' = "writing"
    /\ \E test_numbers \in {test_order(DOMAIN report.tests)},
          range \in {Report_timestamp_range(report)} :
           /\ csv_rows' = << <<"GMT">> \o header_names(report, test_numbers) >>
           /\ writer' = [stat |-> stat, test_numbers |-> test_numbers,
                         start_time |-> range[1], end_time |-> range[2],
                         this_time |-> range[1]]
    /\ UNCHANGED <<grep_vars, dates_vars, grinder_vars, report, data>>

\* one pass of the loop of write_csv
WriteRow ==
    /\ rpc = "writing"
    /\ writer.this_time <= writer.end_time
    /\ Len(csv_rows) <= MaxWritten
    /\ \E row \in {cells(report, writer)} :
           IF \E k \in 1..Len(row) : row[k].raised # ""
           THEN /\ rpc' = row[CHOOSE k \in 1..Len(row) :
                                 /\ row[k].raised # ""
                                 /\ \A j \in 1..(k - 1) : row[j].raised = ""].raised
                /\ UNCHANGED <<writer, csv_rows>>
           ELSE /\ csv_rows' = Append(csv_rows,
                                      <<timestamp_cell(writer.this_time)>>
                                          \o [k \in 1..Len(row) |-> row[k].value])
                /\ writer' = [writer EXCEPT !.this_time = @ + report.resolution]
                /\ UNCHANGED rpc
    /\ UNCHANGED <<grep_vars, dates_vars, grinder_vars, report, data>>

\* the loop of write_csv is over
WriteReturn ==
    /\ rpc = "writing"
    /\ writer.this_time > writer.end_time
    /\ rpc' = "written"
    /\ UNCHANGED <<grep_vars, dates_vars, grinder_vars, report, data, writer, csv_rows>>

ReportNext ==
    \/ \E report_resolution \in ReportResolutions, outfile \in OutFiles :
           NewReport(report_resolution, outfile)
    \/ \E row \in DataRows : ReadRow(row)
    \/ EndOfData
    \/ \E stat \in WrittenStats : WriteHeader(stat)
    \/ WriteRow
    \/ WriteReturn

SpecReport == ReportInit /\ [][ReportNext]_vars

(***************************************************************************)
(* utils.py: top_by, matching_fields, matching_xy_fields, boring_columns,  *)
(* called on their own.  A csv file is given by what csv.DictReader reads   *)
(* from it: its fieldnames and its rows, each row a list of cells.         *)
(***************************************************************************)
MaxColumns == 3

MaxFields == 3

MaxCsvRows == 3

\* the digits and letters, in the order of their codes
Ascii == "0123456789ABCDEFGHIJKLMNOPQRSTUVWXYZ_abcdefghijklmnopqrstuvwxyz"

\* where ord(c) places the character among the digits and letters
Ord(c) == CHOOSE k \in 1..Len(Ascii) : Ch(Ascii, k) = c

\* a < b for two str
RECURSIVE str_less(_, _)
str_less(a, b) ==
    IF b = "" THEN FALSE
    ELSE IF a = "" THEN TRUE
    ELSE IF Ch(a, 1) # Ch(b, 1) THEN Ord(Ch(a, 1)) < Ord(Ch(b, 1))
    ELSE str_less(SubSeq(a, 2, Len(a)), SubSeq(b, 2, Len(b)))

\* the sum, the largest and the smallest of a list of numbers
RECURSIVE py_sum(_)
py_sum(values) == IF values = << >> THEN 0 ELSE Head(values) + py_sum(Tail(values))

py_max(values) == CHOOSE v \in Range(values) : \A other \in Range(values) : v >= other

py_min(values) == CHOOSE v \in Range(values) : \A other \in Range(values) : v <= other

\* func(values) for the functions that top_by is called with, as a fraction
\* <<numerator, denominator>>: avg is float(sum(values)) / len(values)
apply(func, values) ==
    CASE func = "max" -> <<py_max(values), 1>>
      [] func = "min" -> <<py_min(values), 1>>
      [] func = "avg" -> <<py_sum(values), Len(values)>>

\* a < b for two fractions
less(a, b) == a[1] * b[2] < b[1] * a[2]

\* a < b for two tuples (f_ys, y_name)
result_less(a, b) ==
    \/ less(a[1], b[1])
    \/ ~less(b[1], a[1]) /\ str_less(a[2], b[2])

\* the list without its k-th element
without(list, k) == SubSeq(list, 1, k - 1) \o SubSeq(list, k + 1, Len(list))

\* sorted(results)
RECURSIVE sorted_results(_)
sorted_results(results) ==
    IF results = << >> THEN << >>
    ELSE LET k == CHOOSE i \in 1..Len(results) :
                      \A j \in 1..Len(results) : ~result_less(results[j], results[i])
         IN  <<results[k]>> \o sorted_results(without(results, k))

\* reversed(list)
RECURSIVE reversed(_)
reversed(list) ==
    IF list = << >> THEN << >> ELSE reversed(Tail(list)) \o <<Head(list)>>

\* the results from the smallest up
ranked_upwards(results) == sorted_results(results)

\* reversed(sorted(results))
ranked(results) == reversed(sorted_results(results))

\* list[start:stop] for start and stop that are not negative
py_slice(list, start, stop) ==
    SubSeq(list, start + 1, IF stop < Len(list) THEN stop ELSE Len(list))

\* top_by(func, count, y_columns, y_values, drop)
top_by(func, count, y_columns, y_values, drop) ==
    IF \E k \in 1..Len(y_columns) : y_columns[k] \notin DOMAIN y_values
    THEN Raised("KeyError")
    ELSE Let(ranked([k \in 1..Len(y_columns) |->
                        <<apply(func, y_values[y_columns[k]]), y_columns[k]>>]),
             LAMBDA results :
                 Returned(py_slice([k \in 1..Len(results) |-> results[k][2]],
                                   drop, drop + count)))

\* expr.encode('unicode_escape') for a str of printable characters: every
\* backslash is doubled
RECURSIVE unicode_escape(_)
unicode_escape(expr) ==
    IF expr = "" THEN ""
    ELSE (IF Ch(expr, 1) = "\\" THEN "\\\\" ELSE Ch(expr, 1))
             \o unicode_escape(SubSeq(expr, 2, Len(expr)))

\* how many characters of the expression its item at i takes: an escaped
\* character takes two
item_len(expr, i) == IF Ch(expr, i) = "\\" /\ i < Len(expr) THEN 2 ELSE 1

\* the item of the expression at i matches the character c
item_matches(expr, i, c) ==
    IF Ch(expr, i) = "\\" /\ i < Len(expr) THEN Ch(expr, i + 1) = c
    ELSE Ch(expr, i) = "." \/ Ch(expr, i) = c

\* the expression from i on matches the field from j on, for expressions of
\* characters, escaped characters, '.', and items followed by '*'
RECURSIVE matches_here(_, _, _, _)
matches_here(expr, i, field, j) ==
    IF i > Len(expr) THEN TRUE
    ELSE LET next == i + item_len(expr, i)
         IN  IF next <= Len(expr) /\ Ch(expr, next) = "*"
             THEN \/ matches_here(expr, next + 1, field, j)
                  \/ /\ j <= Len(field)
                     /\ item_matches(expr, i, Ch(field, j))
                     /\ matches_here(expr, i, field, j + 1)
             ELSE /\ j <= Len(field)
                  /\ item_matches(expr, i, Ch(field, j))
                  /\ matches_here(expr, next, field, j + 1)

\* re.match(expr, field) finds a match
re_match_expr(expr, field) == matches_here(expr, 1, field, 1)

\* the fields of the list that the expression matches
RECURSIVE matched(_, _)
matched(expr, fields) ==
    IF fields = << >> THEN << >>
    ELSE (IF re_match_expr(expr, Head(fields)) THEN <<Head(fields)>> ELSE << >>)
             \o matched(expr, Tail(fields))

\* matching_fields(expr, fields)
matching_fields(expr, fields) ==
    Let(matched(unicode_escape(expr), fields), LAMBDA found :
        IF found # << >> THEN Returned(found) ELSE Raised("NoMatch"))

\* list.remove(value), for a value that is in the list
list_remove(list, value) ==
    without(list, CHOOSE k \in 1..Len(list) :
                      list[k] = value /\ \A j \in 1..(k - 1) : list[j] # value)

\* y_columns after the loop over the first n expressions of y_exprs
RECURSIVE y_columns_from(_, _, _)
y_columns_from(y_exprs, n, fieldnames) ==
    IF n = 0 THEN Returned(<< >>)
    ELSE Let(y_columns_from(y_exprs, n - 1, fieldnames), LAMBDA y_columns :
         IF y_columns.raised # "" THEN y_columns
         ELSE Let(matching_fields(y_exprs[n], fieldnames), LAMBDA found :
              IF found.raised # "" THEN found
              ELSE Returned(y_columns.value \o found.value)))

\* the x column
first_matching(x_expr, fieldnames) ==
    IF x_expr # "" THEN Let(matching_fields(x_expr, fieldnames), LAMBDA found :
                            IF found.raised # "" THEN found
                            ELSE Returned(found.value[1]))
    ELSE IF fieldnames = << >> THEN Raised("IndexError")
    ELSE Returned(fieldnames[1])

\* matching_xy_fields(x_expr, y_exprs, fieldnames): (x_column, y_columns)
matching_xy_fields(x_expr, y_exprs, fieldnames) ==
    Let(first_matching(x_expr, fieldnames), LAMBDA x_column :
        IF x_column.raised # "" THEN x_column
        ELSE Let(y_columns_from(y_exprs, Len(y_exprs),
                                list_remove(fieldnames, x_column.value)),
                 LAMBDA y_columns :
                     IF y_columns.raised # "" THEN y_columns
                     ELSE Returned(<<x_column.value, y_columns.value>>)))

\* the column is still boring after the row: prev is the value remembered
interesting(prev, cell) == Strip(prev) # "" /\ Strip(cell) # "" /\ cell # prev

\* the row makes the column interesting
becomes_interesting(prev, cell) == interesting(prev, cell)

\* [prev, boring] after the loop over the rows up to row n: prev[k] is the
\* value remembered for column k, boring the set of the columns still boring
RECURSIVE boring_after(_, _)
boring_after(csvfile, n) ==
    IF n = 1
    THEN [prev |-> csvfile.rows[1], boring |-> 1..Len(csvfile.fieldnames)]
    ELSE Let(boring_after(csvfile, n - 1), LAMBDA before :
         [prev |-> [k \in 1..Len(csvfile.fieldnames) |->
                       IF k \in before.boring /\ Strip(before.prev[k]) = ""
                       THEN csvfile.rows[n][k] ELSE before.prev[k]],
          boring |-> {k \in before.boring :
                         ~becomes_interesting(before.prev[k], csvfile.rows[n][k])}])

\* boring_columns(csvfile), for a file whose fieldnames are distinct and
\* whose rows have a cell for every field
boring_columns(csvfile) ==
    IF csvfile.rows = << >> THEN Raised("StopIteration")
    ELSE Let(boring_after(csvfile, Len(csvfile.rows)), LAMBDA after :
         Returned(SelectSeq(csvfile.fieldnames,
                            LAMBDA col : \E k \in after.boring :
                                             csvfile.fieldnames[k] = col)))

\* the arguments of the calls
ColumnNames == {"a", "b", "c"}

ColumnLists ==
    {columns \in SeqsUpTo(ColumnNames, MaxColumns) :
        \A j, k \in 1..Len(columns) : j # k => columns[j] # columns[k]}

ColumnValues ==
    { ("a" :> <<1, 5>>) @@ ("b" :> <<5>>) @@ ("c" :> <<2, 2>>),
      ("a" :> <<-3>>) @@ ("b" :> <<-3, -3>>) @@ ("c" :> <<-4, 7>>) @@ ("d" :> <<9>>) }

Funcs == {"max", "min", "avg"}

Counts == 0..3

XExprs == {"", "x", "y.*", "z"}

YExprLists == SeqsUpTo({"y", "x.*", "q"}, 2)

FieldLists == SeqsUpTo({"x", "xy", "y1"}, MaxFields)

Cells == {"", "0", "1", " "}

CsvFiles ==
    {[fieldnames |-> <<"Lame", "Cool">>, rows |-> csv_rows_read] :
        csv_rows_read \in SeqsUpTo({<<c1, c2>> : c1, c2 \in Cells}, MaxCsvRows)}

UtilsInit == DatesInit

CallTopBy ==
    /\ called = NoCall
    /\ \E func \in Funcs, count \in Counts, y_columns \in ColumnLists,
          y_values \in ColumnValues, drop \in Counts :
           made([fn |-> "top_by", args |-> <<func, count, y_columns, y_values, drop>>,
                 date |-> ""],
                top_by(func, count, y_columns, y_values, drop))
    /\ UNCHANGED <<grep_vars, grinder_vars, report_vars>>

CallMatchingXYFields ==
    /\ called = NoCall
    /\ \E x_expr \in XExprs, y_exprs \in YExprLists, fieldnames \in FieldLists :
           made([fn |-> "matching_xy_fields", args |-> <<x_expr, y_exprs, fieldnames>>,
                 date |-> ""],
                matching_xy_fields(x_expr, y_exprs, fieldnames))
    /\ UNCHANGED <<grep_vars, grinder_vars, report_vars>>

CallBoringColumns ==
    /\ called = NoCall
    /\ \E csvfile \in CsvFiles :
           made([fn |-> "boring_columns", args |-> <<csvfile>>, date |-> ""],
                boring_columns(csvfile))
    /\ UNCHANGED <<grep_vars, grinder_vars, report_vars>>

UtilsNext ==
    \/ CallTopBy
    \/ CallMatchingXYFields
    \/ CallBoringColumns
    \/ CallOver

SpecUtils == UtilsInit /\ [][UtilsNext]_vars

(***************************************************************************)
(* Properties of grep_files (under Spec)                                   *)
(***************************************************************************)
\* the line just read, stripped
line_read == Strip(content[line_num])

\* the bucket of the latest of the first n lines of the file being read
\* that is not empty and has a timestamp; the 1970 sentinel if there is none
RECURSIVE last_parsed(_)
last_parsed(n) ==
    IF n = 0 THEN epoch_zero
    ELSE LET chopped == date_chop(Strip(content[n]), dateformat, resolution, utcoffset)
         IN  IF Strip(content[n]) # "" /\ chopped.raised = "" THEN chopped.value
             ELSE last_parsed(n - 1)

\* how many of the lines attributed to bucket b the expression is found in
lines_matching(b, expr) ==
    Cardinality({n \in 1..Len(attributed[b]) : search(expr, attributed[b][n][2])})

\* C1: carry-forward.  Whenever the loop has passed a non-empty line: if
\* date_chop raised CannotParse for it, timestamp is unchanged and is the
\* bucket of the latest earlier line of the same file that parsed; if it
\* parsed, timestamp is the line's own bucket; and in both cases the
\* line's matches are counted in the bucket timestamp now names, and in no
\* other bucket.
C1_CarryForward ==
    [][(pc = "lines" /\ pc' = "lines" /\ line_num' = line_num + 1
        /\ Strip(content[line_num']) # "")
       => LET line == Strip(content[line_num'])
              chopped == date_chop(line, dateformat, resolution, utcoffset)
              bucket == IF chopped.raised = "" THEN chopped.value
                        ELSE last_parsed(line_num)
          IN  /\ chopped.raised = CannotParse => timestamp' = timestamp
              /\ timestamp' = bucket
              /\ bucket \in DOMAIN rows'
              /\ \A expr \in Range(matches) :
                    LET before == IF bucket \in DOMAIN rows THEN rows[bucket][expr]
                                  ELSE 0
                    IN  IF search(expr, line) THEN rows'[bucket][expr] > before
                        ELSE rows'[bucket][expr] = before
              /\ \A b \in DOMAIN rows' \ {bucket} :
                    b \in DOMAIN rows /\ rows'[b] = rows[b]
      ]_vars

\* a line without a timestamp has just been counted in the bucket of an
\* earlier line of its file
C1_Carried ==
    /\ pc = "lines"
    /\ line_num >= 2
    /\ line_read # ""
    /\ date_chop(line_read, dateformat, resolution, utcoffset).raised = CannotParse
    /\ timestamp # epoch_zero
    /\ timestamp = last_parsed(line_num - 1)
    /\ \E expr \in Range(matches) :
           search(expr, line_read) /\ rows[timestamp][expr] >= 1

\* C2: the list returned is strictly ascending by bucket, holds every
\* bucket exactly once, and the entry of a bucket accounts for the lines
\* of all the files that fell into it.
C2_SortedAccumulated ==
    pc = "done" =>
        /\ \A i, j \in 1..Len(result) :
               i < j => dt_less(result[i][1], result[j][1])
        /\ {result[i][1] : i \in 1..Len(result)} = DOMAIN attributed
        /\ \A i \in 1..Len(result) : \A expr \in Range(matches) :
               /\ result[i][2][expr] >= lines_matching(result[i][1], expr)
               /\ lines_matching(result[i][1], expr) = 0 => result[i][2][expr] = 0

\* the files behind the lines of bucket b
files_of(b) == {attributed[b][n][1] : n \in 1..Len(attributed[b])}

\* returned: a bucket fed by both files, with a match from each, and a
\* bucket of the second file alone that sorts before it
C2_Interleaved ==
    /\ pc = "done"
    /\ \E b \in DOMAIN attributed :
           /\ files_of(b) = {1, 2}
           /\ \E expr \in Range(matches) : \E m, n \in 1..Len(attributed[b]) :
                  /\ attributed[b][m][1] = 1 /\ search(expr, attributed[b][m][2])
                  /\ attributed[b][n][1] = 2 /\ search(expr, attributed[b][n][2])
                  /\ expr # ""
           /\ \E c \in DOMAIN attributed : files_of(c) = {2} /\ dt_less(c, b)

\* C3: in guess mode the format the lines of a file are parsed with is
\* the one guess_file_date_format returns for that file.
C3_FormatOfEachFile ==
    (pc = "lines" /\ dateformat_arg \in {"", "guess"})
        => dateformat = guess_file_date_format(content)

\* the format a call on this file alone would parse its lines with
format_afresh ==
    IF dateformat_arg \in {"", "guess"} THEN guess_file_date_format(content)
    ELSE dateformat_arg

\* C4: within a file, timestamp is the sentinel until a line of that same
\* file has parsed (never the bucket of an earlier file), and nothing but
\* rows comes from the files before: the format is the one a call on this
\* file alone would use.
C4_NothingCarried ==
    pc = "lines" =>
        /\ timestamp = last_parsed(line_num)
        /\ dateformat = format_afresh

\* C5: the count of every expression in every bucket is the number of
\* non-empty lines attributed to the bucket that the expression is found in.
C5_OnePerLine ==
    \A b \in DOMAIN rows : \A expr \in Range(matches) :
        rows[b][expr] = lines_matching(b, expr)

\* C6: the buckets are exactly those a non-empty line was attributed to;
\* a line that is empty once stripped leaves rows and timestamp as they
\* were.
C6_BucketsAndBlankLines ==
    /\ [](/\ DOMAIN rows = DOMAIN attributed
          /\ \A b \in DOMAIN attributed :
                 /\ attributed[b] # << >>
                 /\ \A n \in 1..Len(attributed[b]) : attributed[b][n][2] # ""
          /\ pc = "done" => {result[i][1] : i \in 1..Len(result)} = DOMAIN attributed)
    /\ [][(pc = "lines" /\ line_num' = line_num + 1 /\ Strip(content[line_num']) = "")
            => (rows' = rows /\ timestamp' = timestamp /\ pc' = pc)]_vars

\* a whitespace-only line has just been read, and the bucket of the line
\* before it is there with every count zero
C6_ZeroBucket ==
    /\ pc = "lines"
    /\ line_num >= 2
    /\ content[line_num] # ""
    /\ line_read = ""
    /\ timestamp \in DOMAIN rows
    /\ \A expr \in Range(matches) : rows[timestamp][expr] = 0

(***************************************************************************)
(* Properties of the functions of dates.py (under SpecDates)               *)
(***************************************************************************)
\* the candidates, by their place in the list, whose pattern is found
\* somewhere in the string
found_in(string) ==
    {k \in 1..Len(format_regexps) :
        \E i \in 1..(Len(string) + 1) : MatchesAt(format_regexps[k][2], 1, string, i)}

Least(S) == CHOOSE k \in S : \A m \in S : k <= m

\* C7: guess_format returns the template of the first candidate of the
\* list whose pattern is found anywhere in the string, raises CannotParse
\* exactly when none is found, and does the same when called again.
C7_FirstCandidateFound ==
    called.fn = "guess_format" =>
        \A n \in 1..Len(outcomes) :
            IF found_in(called.args[1]) = {}
            THEN outcomes[n] = Raised(CannotParse)
            ELSE outcomes[n] = Returned(format_regexps[Least(found_in(called.args[1]))][1])

\* called twice on a string in which several candidates are found, the
\* first of them not at the start of the string
C7_FoundInside ==
    /\ called.fn = "guess_format"
    /\ Len(outcomes) = 2
    /\ outcomes[2].raised = ""
    /\ Cardinality(found_in(called.args[1])) > 1
    /\ ~MatchesAt(format_regexps[Least(found_in(called.args[1]))][2], 1,
                  called.args[1], 1)

\* the lines of the file, by number, whose format guess_format can guess
guessable(file) == {k \in 1..Len(file) : guess_format_once(file[k]) # CannotParse}

\* C8: guess_file_date_format returns guess_format of the first line on
\* which guess_format succeeds, whatever the lines before and after it,
\* and raises CannotParse exactly when there is no such line.
C8_FirstGuessableLine ==
    called.fn = "guess_file_date_format" =>
        LET file == called.args[1]
        IN  \A n \in 1..Len(outcomes) :
                IF guessable(file) = {} THEN outcomes[n] = Raised(CannotParse)
                ELSE outcomes[n] =
                         Returned(guess_format_once(file[Least(guessable(file))]))

\* a file whose first line has no date and whose second has one
C8_SecondLineDecides ==
    /\ called.fn = "guess_file_date_format"
    /\ guessable(called.args[1]) = {2}
    /\ outcomes[1].raised = ""

\* C9: when the date conforms exactly to the format, parse of the date
\* followed by any trailing characters returns what parse of the date
\* alone returns.
C9_TrailingGarbage ==
    (called.fn = "parse" /\ strptime(called.date, called.args[2]).raised = "")
        => \A n \in 1..Len(outcomes) :
               /\ outcomes[n].raised = ""
               /\ outcomes[n] = parse(called.date, called.args[2])

\* a datetime with every field in its range
is_datetime(t) ==
    /\ Len(t) = 7
    /\ t[1] \in 1..9999 /\ t[2] \in 1..12 /\ t[3] \in 1..days_in_month(t[1], t[2])
    /\ t[4] \in 0..23 /\ t[5] \in 0..59 /\ t[6] \in 0..59 /\ t[7] \in 0..999999

\* C10: parse returns a datetime with every field set, or raises
\* CannotParse; it raises nothing else.
C10_TwoOutcomes ==
    called.fn = "parse" =>
        \A n \in 1..Len(outcomes) :
            \/ outcomes[n].raised = "" /\ is_datetime(outcomes[n].value)
            \/ outcomes[n] = Raised(CannotParse)

\* the timestamp date_chop was called on, parsed
chop_parsed == parse(called.args[1], called.args[2])

\* the datetime n seconds after t, on the same clock
plus_seconds(t, n) ==
    from_naive_seconds(secs_norm(naive_seconds(t)[1], naive_seconds(t)[2] + n))

\* the count of seconds <<days, seconds of the day>> is a multiple of r
multiple_of(secs, r) == (((secs[1] % r) * (86400 % r)) + secs[2]) % r = 0

\* a <= b for two datetimes
dt_le(a, b) == ~dt_less(b, a)

C12_ResolutionRejected ==
    (called.fn = "date_chop" /\ called.args[3] <= 0)
        => \A n \in 1..Len(outcomes) : outcomes[n].raised # ""

\* C13: in every time zone the bucket of an hour has minute and second
\* zero, and the bucket of a minute has second zero.
C13_CalendarBoundaries ==
    (called.fn = "date_chop" /\ called.args[3] \in {60, 3600})
        => \A n \in 1..Len(outcomes) :
               outcomes[n].raised = ""
                   => /\ outcomes[n].value[6] = 0
                      /\ called.args[3] = 3600 => outcomes[n].value[5] = 0

\* the lists of the call of compiled_format_regexps
D_arg == called.args[1]

T_arg == called.args[2]

RECURSIVE in_lock_step(_, _)
in_lock_step(simple_format, n) ==
    IF n = 0 THEN <<"", "">>
    ELSE LET before == in_lock_step(simple_format, n - 1)
             c == Ch(simple_format, n)
         IN  IF c \in DOMAIN _regexps
             THEN <<before[1] \o "%" \o c, before[2] \o _regexps[c]>>
             ELSE <<before[1] \o c, before[2] \o c>>

\* C15: format_regexp puts, for every character of the simplified format
\* in turn, '%' and the character into the template and the directive's
\* fragment into the pattern when the character is a directive code, and
\* the character itself into both when it is not.
C15_LockStep ==
    called.fn = "format_regexp" =>
        \A n \in 1..Len(outcomes) :
            outcomes[n] = Returned(in_lock_step(called.args[1], Len(called.args[1])))

\* a simplified format with directive codes and other characters, a dot
\* among them
C15_Mixed ==
    /\ called.fn = "format_regexp"
    /\ called.args[1] = "I:M:S.f p"
    /\ outcomes[1].value[1] = "%I:%M:%S.%f %p"

\* the template holds the directive
carries(template, code) ==
    \E i \in 1..(Len(template) - 1) : SubSeq(template, i, i + 1) = "%" \o code

\* the fields of a datetime, by number, that the template carries
carried_fields(template) ==
    {1 : c \in {c \in {"Y", "y"} : carries(template, c)}}
    \cup {2 : c \in {c \in {"B", "b", "m"} : carries(template, c)}}
    \cup {3 : c \in {c \in {"d"} : carries(template, c)}}
    \cup {4 : c \in {c \in {"H", "I"} : carries(template, c)}}
    \cup {5 : c \in {c \in {"M"} : carries(template, c)}}
    \cup {6 : c \in {c \in {"S"} : carries(template, c)}}
    \cup {7 : c \in {c \in {"f"} : carries(template, c)}}

\* C16: a datetime formatted with the template of a candidate and parsed
\* back with the same template gives a datetime that agrees with it in
\* every field the template carries.
C16_RoundTrip ==
    called.fn = "strftime, parse" =>
        \A n \in 1..Len(outcomes) :
            /\ outcomes[n].raised = ""
            /\ \A field \in carried_fields(called.args[2]) :
                   outcomes[n].value[field] = called.args[1][field]

(***************************************************************************)
(* Properties of grinder.Bin and grinder.Test (under SpecGrinder)          *)
(***************************************************************************)
\* add call n returned
returned(n) == adds[n][2]

\* int(row[column]) of add call n
int_of(n, column) == py_int(adds[n][1][column]).value

\* the sum of int(row[stat]) over the add calls in the set
RECURSIVE sum_over(_, _)
sum_over(stat, calls) ==
    IF calls = {} THEN 0
    ELSE LET n == CHOOSE k \in calls : TRUE
         IN  int_of(n, stat) + sum_over(stat, calls \ {n})

\* q is the quotient of total by n, rounded down
is_floor_quotient(q, total, n) == q * n <= total /\ total < (q + 1) * n

seconds_of(n) ==
    Let(int_of(n, start_time), LAMBDA ms :
        CHOOSE seconds \in -10..100 : is_floor_quotient(seconds, ms, 1000))

\* the multiple of the test's resolution that the start of the row of add
\* call n is truncated down to
key_of(n) ==
    Let(seconds_of(n), LAMBDA seconds :
        CHOOSE key \in {m * test.resolution : m \in -10..100} :
            key <= seconds /\ seconds < key + test.resolution)

\* the add calls that got as far as a bin, each with the key of its row
binned == {<<n, key_of(n)>> : n \in {k \in 1..Len(adds) :
                                        py_int(adds[k][1][start_time]).raised = ""}}

\* the add calls among those whose rows belong to the bin of the key
calls_of(keyed, key) == {call[1] : call \in {c \in keyed : c[2] = key}}

\* the bin of the key holds the rows of the add calls and nothing else
holds_rows_of(key, calls) ==
    (\A n \in calls : returned(n)) =>
        /\ key \in DOMAIN test.bins <=> calls # {}
        /\ key \in DOMAIN test.bins =>
               /\ test.bins[key].count = Cardinality(calls)
               /\ \A stat \in Range(all_stats) :
                      test.bins[key].stats[stat] = sum_over(stat, calls)

C19_NeverByZero ==
    (subject = "Test" /\ called.fn = "stat_at_time") =>
        outcomes[1].raised # "ZeroDivisionError"

\* C20: stat_at_time raises ValueError for a statistic that is neither summed
\* nor averaged, whatever the timestamp.
C20_UnknownStatRaises ==
    (subject = "Test" /\ called.fn = "stat_at_time"
        /\ called.args[1] \notin Range(all_stats)) =>
        outcomes[1].raised = "ValueError"

(***************************************************************************)
(* Properties of grinder.Report (under SpecReport)                         *)
(***************************************************************************)
\* the keys of the bins of all the tests of the report
all_keys == UNION {DOMAIN report.tests[n].bins : n \in DOMAIN report.tests}

\* C21: Test.timestamp_range is (0, 0) for a test without rows and else the
\* smallest and the largest key of its bins; Report.timestamp_range is the
\* earliest and the latest bin timestamp over the rows added to any test of
\* the report.
C21_EarliestAndLatest ==
    (rpc \in {"writing", "written"} /\ all_keys # {}) =>
        /\ writer.start_time \in all_keys
        /\ writer.end_time \in all_keys
        /\ \A key \in all_keys : writer.start_time <= key /\ key <= writer.end_time

\* the range of the report, as write_csv gets it
report_range == Report_timestamp_range(report)

\* the timestamps from start to end in steps of the report's resolution
steps ==
    {at \in report_range[1]..report_range[2] :
        (at - report_range[1]) % report.resolution = 0}

\* the column of the test number
column_of(n) == 1 + Cardinality({m \in DOMAIN report.tests : m <= n})

\* the header is 'GMT' and one column per test in ascending test number
header_in_order ==
    /\ Len(csv_rows[1]) = 1 + Cardinality(DOMAIN report.tests)
    /\ csv_rows[1][1] = "GMT"
    /\ \A n \in DOMAIN report.tests :
           csv_rows[1][column_of(n)] = py_str(n) \o ": " \o report.names[n]

\* row k is the row of the timestamp, and each of its cells is the test's
\* stat_at_time for it, 0 where the test has no data
row_of_step(k, at) ==
    /\ at <= report_range[2]
    /\ csv_rows[k][1] = timestamp_cell(at)
    /\ Len(csv_rows[k]) = 1 + Cardinality(DOMAIN report.tests)
    /\ \A n \in DOMAIN report.tests :
           /\ stat_at_time(report.tests[n], writer.stat, at)
                  = Returned(csv_rows[k][column_of(n)])
           /\ at \notin DOMAIN report.tests[n].bins => csv_rows[k][column_of(n)] = 0

\* C22: write_csv writes the header 'GMT' and one column per test in
\* ascending test number, then exactly one row for each of start, start +
\* resolution, ..., end, ascending, without gaps and without duplicates,
\* where (start, end) is the report's timestamp range; each cell is the
\* test's stat_at_time for the timestamp of the row, 0 where the test has no
\* data.
C22_RowPerStep ==
    rpc \in {"writing", "written"} =>
        /\ report_range = <<writer.start_time, writer.end_time>>
        /\ header_in_order
        /\ \A k \in 2..Len(csv_rows) :
               row_of_step(k, report_range[1] + (k - 2) * report.resolution)
        /\ \A j, k \in 2..Len(csv_rows) : j < k => csv_rows[j][1] # csv_rows[k][1]
        /\ rpc = "written" =>
               /\ Len(csv_rows) = 1 + Cardinality(steps)
               /\ report_range[2] \in steps

\* the same for the reports of a resolution of 1 or more
C22_ForPositiveResolution == report.resolution >= 1 => C22_RowPerStep

\* the lines of the out file of the report that begin 'Test '
summary_lines ==
    {k \in 1..Len(called.args[2]) : HasPrefix(called.args[2][k], "Test ")}

\* the test numbers that the out file names
named == {py_int(Split(called.args[2][k])[2]).value : k \in summary_lines}

\* how many rows the bins of the test hold
rows_in(t) ==
    LET RECURSIVE total(_)
        total(keys) ==
            IF keys = {} THEN 0
            ELSE LET key == CHOOSE k \in keys : TRUE
                 IN  t.bins[key].count + total(keys \ {key})
    IN  total(DOMAIN t.bins)

\* how many of the rows read are of the test number
rows_of(n) == Cardinality({k \in 1..Len(data) : py_int(data[k]["Test"]).value = n})

C29_EveryBinWritten ==
    (rpc \in {"reading", "constructed", "writing", "written"}
        /\ report.resolution >= 1) =>
        /\ all_keys \subseteq steps
        /\ rpc = "written" =>
               \A key \in all_keys :
                   Cardinality({k \in 2..Len(csv_rows) :
                                   csv_rows[k][1] = timestamp_cell(key)}) = 1

\* write_csv of a report of resolution 2 has returned, and bins of keys 2, 4
\* and -2 are in it
C29_ThreeBins ==
    /\ rpc = "written"
    /\ report.resolution = 2
    /\ all_keys = {-2, 2, 4}

\* C30: the loop of write_csv ends: it writes no more rows than there are
\* timestamps from start to end.
C30_LoopEnds ==
    rpc = "writing" =>
        Len(csv_rows) - 1 <= writer.end_time - writer.start_time + 1

(***************************************************************************)
(* Properties of utils.top_by, utils.matching_xy_fields and                *)
(* utils.boring_columns (under SpecUtils)                                  *)
(***************************************************************************)
\* func(values) of the column in the call of top_by
func_of(y_name) == apply(called.args[1], called.args[4][y_name])

\* the columns of the call whose func value is above, or not below, that of
\* the column
above(y_name) ==
    {other \in Range(called.args[3]) : less(func_of(y_name), func_of(other))}

not_below(y_name) ==
    {other \in Range(called.args[3]) : ~less(func_of(other), func_of(y_name))}

\* the smaller of two numbers
Min(a, b) == IF a <= b THEN a ELSE b

\* C24: top_by(func, count, y_columns, y_values, drop) returns the names
\* from drop to drop + count of the column names in the order of
\* non-increasing func(values): min(count, max(0, n - drop)) names, each with
\* a func value that is not below that of a later name of the result or of a
\* column after these, and the same names whatever the order of y_columns.
C24_TopSlice ==
    called.fn = "top_by" =>
        \E count \in {called.args[2]}, y_columns \in {called.args[3]},
           drop \in {called.args[5]}, top \in {outcomes[1].value} :
            /\ outcomes[1].raised = ""
            /\ Len(top) = Min(count, IF Len(y_columns) > drop
                                     THEN Len(y_columns) - drop ELSE 0)
            /\ \A k \in 1..Len(top) :
                   /\ top[k] \in Range(y_columns)
                   /\ \A j \in 1..(k - 1) :
                          top[j] # top[k] /\ ~less(func_of(top[j]), func_of(top[k]))
                   /\ Cardinality(above(top[k])) <= drop + k - 1
                   /\ Cardinality(not_below(top[k])) >= drop + k
            /\ \A other \in ColumnLists :
                   Range(other) = Range(y_columns) =>
                       top_by(called.args[1], count, other, called.args[4], drop)
                           = outcomes[1]

\* of three columns, two with the same peak, the second from the top is
\* asked for, and it is one of the two
C24_SecondOfTie ==
    /\ called.fn = "top_by"
    /\ called.args[1] = "max"
    /\ called.args[2] = 1
    /\ called.args[3] = <<"c", "a", "b">>
    /\ called.args[4]["a"] = <<1, 5>>
    /\ called.args[5] = 1
    /\ outcomes = <<Returned(<<"a">>)>>

\* the fields of the call of matching_xy_fields that the expression matches
fields_matching(expr) ==
    {k \in 1..Len(called.args[3]) :
        re_match_expr(unicode_escape(expr), called.args[3][k])}

\* the place of the x column among the fields: the first that x_expr matches,
\* or the first when x_expr is empty
x_place ==
    IF called.args[1] = "" THEN 1
    ELSE CHOOSE k \in fields_matching(called.args[1]) :
             \A other \in fields_matching(called.args[1]) : k <= other

\* the fields other than the x column that the first n expressions of
\* y_exprs match, expression by expression
RECURSIVE y_fields(_)
y_fields(n) ==
    IF n = 0 THEN << >>
    ELSE y_fields(n - 1)
             \o SelectSeq([k \in 1..Len(called.args[3]) |->
                              IF k # x_place
                                  /\ k \in fields_matching(called.args[2][n])
                              THEN called.args[3][k] ELSE ""],
                          LAMBDA field : field # "")

\* an expression of the call matches no field
unmatched ==
    \/ called.args[1] # "" /\ fields_matching(called.args[1]) = {}
    \/ \E n \in 1..Len(called.args[2]) : fields_matching(called.args[2][n]) = {}

\* C25: matching_xy_fields(x_expr, y_exprs, fieldnames): the x column is the
\* first field that x_expr matches, or the first field when x_expr is
\* empty; the y columns are, for each y expression in order, the fields
\* other than the x column that it matches, so the x column is not among
\* them; NoMatch is raised if x_expr or a y expression matches no field.
C25_XAndYColumns ==
    called.fn = "matching_xy_fields" =>
        /\ unmatched => outcomes[1].raised = "NoMatch"
        /\ outcomes[1].raised = "" =>
               /\ outcomes[1].value[1] = called.args[3][x_place]
               /\ outcomes[1].value[2] = y_fields(Len(called.args[2]))
               /\ \A k \in 1..Len(outcomes[1].value[2]) :
                      outcomes[1].value[2][k] # outcomes[1].value[1]

\* the same for the calls with fields that are distinct, and at least one
C25_ForDistinctFields ==
    (called.fn = "matching_xy_fields"
        /\ called.args[3] # << >>
        /\ \A j, k \in 1..Len(called.args[3]) :
               j # k => called.args[3][j] # called.args[3][k]) =>
        C25_XAndYColumns

\* the values of column k of the file of the call that are not empty
values_of(k) ==
    {called.args[1].rows[n][k] : n \in 1..Len(called.args[1].rows)}
        \ {cell \in Cells : Strip(cell) = ""}

\* C26: boring_columns(csvfile) returns, in the order of the header, the
\* columns all of whose values that are not empty are equal, and no other.
C26_SameValueColumns ==
    called.fn = "boring_columns" =>
        /\ outcomes[1].raised = ""
        /\ outcomes[1].value
               = SelectSeq([k \in 1..Len(called.args[1].fieldnames) |->
                               IF Cardinality(values_of(k)) <= 1
                               THEN called.args[1].fieldnames[k] ELSE ""],
                           LAMBDA col : col # "")

\* the same for the files with a row at least
C26_ForFilesWithRows ==
    (called.fn = "boring_columns" /\ called.args[1].rows # << >>) =>
        C26_SameValueColumns

\* ---------------------------------------------------------------------------
\* C27: for every line that begins with a date/time and for which
\* guess_format returns a template, dates.parse of that line with that
\* template succeeds, so that date_chop parses the line the format was
\* guessed from.
C27_GuessedFormatParses ==
    (called.fn = "guess_format, parse" /\ called.date # CannotParse)
        => \A n \in 1..Len(outcomes) : outcomes[n].raised = ""

\* the guessed format parses the lines whose date/time is a valid one, is
\* followed by a space or the end of the line, and carries its year
C27_ForPlainDates ==
    (/\ called.fn = "guess_format, parse"
     /\ called.args[1] \in {"2010/08/30 14:05:37 Stun Stun", "8/30/2010 13:57 Pin",
                            "Aug 30 2010 1:57 pm", "August 30, 2010 rain",
                            "12:30 lunch", "08/30/2010 14:05:37.5 x"})
        => /\ called.date # CannotParse
           /\ \A n \in 1..Len(outcomes) : outcomes[n].raised = ""

\* what the rejected lines were guessed as
C27_Guesses ==
    called.fn = "guess_format, parse"
        => called.date = CASE called.args[1] = "Feb 29 10:30:00 host sshd" -> "%b %d %H:%M:%S"
                           [] called.args[1] = "2010/08/30 14:05:37: Stun" -> "%Y/%m/%d %H:%M:%S"
                           [] called.args[1] = "2010-08-28 14:05:37,123 INFO x" -> "%Y-%m-%d %H:%M:%S.%f"
                           [] called.args[1] = "2010/08/30T14:05:37 x" -> "%Y/%m/%d"
                           [] OTHER -> called.date


\* ---------------------------------------------------------------------------
\* C28: when the same expression appears more than once in the matches list,
\* a single line never increments the counter of one expression by more than
\* one: reading a line raises no count of a bucket the line is attributed to
\* by more than one.
C28_OnePerExpression ==
    [][line_num' = line_num + 1 =>
           \A b \in DOMAIN rows' : \A expr \in Range(matches) :
               rows'[b][expr] <= (IF b \in DOMAIN rows THEN rows[b][expr] ELSE 0) + 1]_vars

\* an expression that is twice in the matches list has counted a line
C28_CountedTwice ==
    \E b \in DOMAIN rows : \E i, j \in 1..Len(matches) :
        i < j /\ matches[i] = matches[j] /\ rows[b][matches[i]] > 0


=============================================================================
